---- MODULE Spec2Model ----
(***************************************************************************)
(* Model of the bintje render context (Bintje in src/bintje/src/lib.rs):   *)
(* the scene state, its operations (new, clear, push_transform,            *)
(* pop_transform, fill_shape, stroke) and the pipeline they drive          *)
(* (flatten -> tile -> strip -> widen), plus the reference CPU rasterizer. *)
(*                                                                         *)
(* Numbers.  Coordinates are f32/f64 in the source.  The model works on    *)
(* the dyadic grid of half pixels, on which every operation of the         *)
(* pipeline is exact in f32: a coordinate n stands for n/2 px, an area     *)
(* coverage n stands for n/4.  Geometry is axis aligned (rectangles and    *)
(* their images under integer scale/translate transforms), so the lines    *)
(* that reach the striper are vertical: y_slope is +inf, x_slope is 0.     *)
(***************************************************************************)
EXTENDS Integers, Sequences, FiniteSets, TLC

\* ---------------------------------------------------------------- constants
Tile_WIDTH == 4
Tile_HEIGHT == 4
WIDE_TILE_WIDTH_TILES == 32
WIDE_TILE_WIDTH_PX == Tile_WIDTH * WIDE_TILE_WIDTH_TILES
U16_MAX == 65535
\* the largest value of a color channel and of an alpha byte (u8)
U8_MAX == 255
\* LIMITS.max_uniform_buffer_binding_size of wgpu::Limits::downlevel_webgl2_defaults(): 16 KiB
MAX_UNIFORM_BUFFER_BINDING_SIZE == 16384
\* the size of the GPU rasterizer's alpha masks buffer: `2 << 18`
ALPHA_MASKS_BUFFER_SIZE == 524288

\* ------------------------------------------------------------------- bounds
\* submissions (fill_shape, stroke) made to one scene; depth of the transform stack
MaxSubmissions == 2
MaxDepth == 2
\* the longest element stream handed to the fill flattener
MaxPathLen == 4
\* the commands that touch one pixel of a wide tile
MaxCommands == 4
\* the full-width Sample commands in one wide tile handed to the GPU rasterizer
MaxGpuSamples == 34

\* ------------------------------------------------------------------ helpers
Abs(n) == IF n < 0 THEN -n ELSE n
Max(a, b) == IF a < b THEN b ELSE a
Min(a, b) == IF a < b THEN a ELSE b
\* f32::signum of a difference of finite numbers: signum(+0.0) is 1.0
Signum(n) == IF n < 0 THEN -1 ELSE 1
DivCeil(a, b) == (a + b - 1) \div b

IsPrefix(s, t) == Len(s) <= Len(t) /\ SubSeq(t, 1, Len(s)) = s

\* ----------------------------------------------------------------- geometry
\* kurbo::Affine coefficients <<a, b, c, d, e, f>>: (x, y) -> (a x + c y + e, b x + d y + f)
IDENTITY == <<1, 0, 0, 1, 0, 0>>

\* Affine * Affine (kurbo), as used by `self.current_transform *= transform`
AffineMul(s, o) ==
    << s[1] * o[1] + s[3] * o[2],
       s[2] * o[1] + s[4] * o[2],
       s[1] * o[3] + s[3] * o[4],
       s[2] * o[3] + s[4] * o[4],
       s[1] * o[5] + s[3] * o[6] + s[5],
       s[2] * o[5] + s[4] * o[6] + s[6] >>

\* Affine * Point
AffinePoint(t, p) == << t[1] * p[1] + t[3] * p[2] + t[5], t[2] * p[1] + t[4] * p[2] + t[6] >>

\* f64::max(|c[0]|, |c[3]|) of push_transform
ScaleOf(t) == Max(Abs(t[1]), Abs(t[4]))

\* Line::from_kurbo(kurbo::Line::new(a, b)); f64 -> f32 is exact on the grid
MkLine(a, b) == [p0 |-> a, p1 |-> b]

\* path elements
MoveTo(p) == [t |-> "MoveTo", p |-> p]
LineTo(p) == [t |-> "LineTo", p |-> p]
ClosePath == [t |-> "ClosePath", p |-> <<0, 0>>]

\* kurbo::Rect::path_elements: the rectangle with corners in pixels
RectPath(x0, y0, x1, y1) ==
    << MoveTo(<<x0, y0>>), LineTo(<<x1, y0>>), LineTo(<<x1, y1>>), LineTo(<<x0, y1>>), ClosePath >>

\* ---------------------------------------------------------------- flattener
\* the callback with a MoveTo that starts the next subpath without closing the open one
FlattenEl_NoCloseOnMove(st, transform, raw) ==
    LET point == AffinePoint(transform, raw.p) IN
    CASE raw.t = "MoveTo" ->
            [closed |-> TRUE, start |-> point, prev |-> point, lines |-> st.lines]
      [] raw.t = "LineTo" ->
            [closed |-> FALSE, start |-> st.start, prev |-> point,
             lines |-> Append(st.lines, MkLine(st.prev, point))]
      [] raw.t = "ClosePath" ->
            [closed |-> TRUE, start |-> st.start, prev |-> st.prev,
             lines |-> Append(st.lines, MkLine(st.prev, st.start))]

\* One callback invocation of flatten_path: st = [closed, start, prev, lines]
FlattenEl(st, transform, raw) ==
    LET point == AffinePoint(transform, raw.p) IN
    CASE raw.t = "MoveTo" ->
            [closed |-> TRUE, start |-> point, prev |-> point,
             lines |-> IF ~st.closed THEN Append(st.lines, MkLine(st.prev, st.start))
                                     ELSE st.lines]
      [] raw.t = "LineTo" ->
            [closed |-> FALSE, start |-> st.start, prev |-> point,
             lines |-> Append(st.lines, MkLine(st.prev, point))]
      [] raw.t = "ClosePath" ->
            [closed |-> TRUE, start |-> st.start, prev |-> st.prev,
             lines |-> Append(st.lines, MkLine(st.prev, st.start))]

RECURSIVE FlattenFrom(_, _, _, _)
FlattenFrom(st, transform, path, i) ==
    IF i > Len(path) THEN st
    ELSE FlattenFrom(FlattenEl(st, transform, path[i]), transform, path, i + 1)

\* Bintje::flatten_path: the lines pushed to self.lines (which was cleared before)
flatten_path(lines, transform, path) ==
    LET st == FlattenFrom([closed |-> TRUE, start |-> <<0, 0>>, prev |-> <<0, 0>>,
                           lines |-> lines], transform, path, 1)
    IN IF ~st.closed /\ st.prev # st.start
          THEN Append(st.lines, MkLine(st.prev, st.start))
          ELSE st.lines

\* -------------------------------------------------------------------- tiler
\* TileRow::new() / TileRow::clear()
TileRow_new == [tiles |-> <<>>, winding |-> 0, area_coverage |-> [k \in 1..Tile_HEIGHT |-> 0]]

\* length of the overlap of the intervals [a0, a1] and [b0, b1]
Overlap(a0, a1, b0, b1) == Max(0, Min(a1, b1) - Max(a0, b0))

\* <<lo, lo + 1, ..., hi>>
RECURSIVE Range(_, _)
Range(lo, hi) == IF lo > hi THEN <<>> ELSE <<lo>> \o Range(lo + 1, hi)

\* the tile entries one line adds to one row: columns floor(x_min) .. min(floor(x_max), width_in_tiles - 1)
RowTiles(width, line, line_idx) ==
    LET width_in_tiles == DivCeil(width, Tile_WIDTH)
        x_min == Min(line.p0[1], line.p1[1])
        x_max == Max(line.p0[1], line.p1[1])
        cols  == Range(x_min \div (2 * Tile_WIDTH),
                       Min(x_max \div (2 * Tile_WIDTH), width_in_tiles - 1))
    IN [k \in 1..Len(cols) |-> [x |-> cols[k], line_idx |-> line_idx]]

\* the effect of one line on the tile rows
TileLine(rows, width, line, line_idx) ==
    LET s   == Signum(line.p0[2] - line.p1[2])
        top == Min(line.p0[2], line.p1[2])
        bot == Max(line.p0[2], line.p1[2])
    IN IF line.p0[2] = line.p1[2] THEN rows   \* horizontal geometry is elided
       ELSE [r \in 1..Len(rows) |->
              LET row_top == (r - 1) * 2 * Tile_HEIGHT
                  row_bot == row_top + 2 * Tile_HEIGHT
              IN IF ~(top < row_bot /\ row_top < bot) THEN rows[r]
                 ELSE IF Max(line.p0[1], line.p1[1]) < 0
                 THEN \* entirely left of the viewport: left accounting, no tile entries
                      [rows[r] EXCEPT
                         !.winding = @ + (IF top <= row_top THEN s ELSE 0),
                         !.area_coverage = [k \in 1..Tile_HEIGHT |->
                             @[k] + s * 2 * Overlap(top, bot, row_top + 2 * (k - 1),
                                                    row_top + 2 * k)]]
                 ELSE [rows[r] EXCEPT !.tiles = @ \o RowTiles(width, line, line_idx)]]

RECURSIVE TileLines(_, _, _, _)
TileLines(rows, width, lines, i) ==
    IF i > Len(lines) THEN rows
    ELSE TileLines(TileLine(rows, width, lines[i], i - 1), width, lines, i + 1)

\* tile::generate_tiles(&mut rows, width, &lines)
generate_tiles(rows, width, lines) == TileLines(rows, width, lines, 1)

\* TileRow::sort: ascending by tile x, stable
RECURSIVE InsertTile(_, _)
InsertTile(sorted, t) ==
    IF sorted = <<>> THEN <<t>>
    ELSE IF sorted[Len(sorted)].x <= t.x THEN Append(sorted, t)
    ELSE Append(InsertTile(SubSeq(sorted, 1, Len(sorted) - 1), t), sorted[Len(sorted)])

RECURSIVE SortTiles(_)
SortTiles(tiles) ==
    IF tiles = <<>> THEN <<>>
    ELSE InsertTile(SortTiles(SubSeq(tiles, 1, Len(tiles) - 1)), tiles[Len(tiles)])

TileRow_sort(row) == [row EXCEPT !.tiles = SortTiles(@)]

\* Bintje::tile
tile(rows, width, lines) ==
    LET generated == generate_tiles(rows, width, lines)
    IN [r \in 1..Len(generated) |-> TileRow_sort(generated[r])]

\* ------------------------------------------------------------------ striper
\* (coverage.abs() * u8::MAX as f32).round() as u8, coverage in quarters;
\* round is half away from zero and the cast saturates
CoverageToU8(coverage) == Min((Abs(coverage) * 255 * 2 + 4) \div 8, 255)

GATE_CLOSER == [x |-> U16_MAX, line_idx |-> 0]

\* the 16 bytes of one location pushed row by row: `for y { for x { ... } }`
LocationBytes_RowMajor(location_winding) ==
    [k \in 1..(Tile_WIDTH * Tile_HEIGHT) |->
        CoverageToU8(location_winding[((k - 1) % Tile_WIDTH) + 1][((k - 1) \div Tile_WIDTH) + 1])]

\* the 16 bytes pushed for one location: `for x { for y { push(location_winding[x][y]) } }`
LocationBytes(location_winding) ==
    [k \in 1..(Tile_WIDTH * Tile_HEIGHT) |->
        CoverageToU8(location_winding[((k - 1) \div Tile_HEIGHT) + 1][((k - 1) % Tile_HEIGHT) + 1])]

\* strip.rs 75-85: push out the winding of the location of prev_tile as an alpha mask.
\* `written` records, per pixel of the canvas, the coverage byte computed for it.
FlushLocation(st, row_y) ==
    [st EXCEPT
       !.alpha = @ \o LocationBytes(st.location_winding),
       !.written = @ \cup
           { [px |-> st.prev_tile.x * Tile_WIDTH + x, py |-> row_y * Tile_HEIGHT + y,
              a |-> CoverageToU8(st.location_winding[x + 1][y + 1])] :
             x \in 0..(Tile_WIDTH - 1), y \in 0..(Tile_HEIGHT - 1) },
       !.location_winding = [x \in 1..Tile_WIDTH |-> st.accumulated_winding]]

\* the strip push with the next strip's alpha_idx taken before the location was pushed out
PushStrip_StaleIdx(st, cur, row_y) ==
    [st EXCEPT
       !.strips = Append(@, [st.strip EXCEPT !.width = st.prev_tile.x - st.strip.x + 1]),
       !.strip = [x |-> cur.x, y |-> row_y, width |-> 0,
                  pixel_coverage |-> [k \in 1..Tile_HEIGHT |->
                                         CoverageToU8(st.accumulated_winding[k])],
                  alpha_idx |-> Len(st.alpha) - Tile_WIDTH * Tile_HEIGHT]]

\* the strip push with `strip.width = prev_tile.x - strip.x`
PushStrip_WidthOff(st, cur, row_y) ==
    [st EXCEPT
       !.strips = Append(@, [st.strip EXCEPT !.width = st.prev_tile.x - st.strip.x]),
       !.strip = [x |-> cur.x, y |-> row_y, width |-> 0,
                  pixel_coverage |-> [k \in 1..Tile_HEIGHT |->
                                         CoverageToU8(st.accumulated_winding[k])],
                  alpha_idx |-> Len(st.alpha)]]

\* strip.rs 88-98: push out the strip and start the next one at `cur`
PushStrip(st, cur, row_y) ==
    [st EXCEPT
       !.strips = Append(@, [st.strip EXCEPT !.width = st.prev_tile.x - st.strip.x + 1]),
       !.strip = [x |-> cur.x, y |-> row_y, width |-> 0,
                  pixel_coverage |-> [k \in 1..Tile_HEIGHT |->
                                         CoverageToU8(st.accumulated_winding[k])],
                  alpha_idx |-> Len(st.alpha)]]

\* strip.rs 164-203 for a vertical line at tile-local x = line_x spanning
\* [line_top_y, line_bottom_y]: h of pixel (x_idx, y_idx), in half pixels.
\* y_slope is +inf: a pixel edge left of (or on) the line clamps to ymin, one right of it to ymax.
PixelH(line_x, line_top_y, line_bottom_y, x_idx, y_idx) ==
    LET ymin == Max(line_top_y, 2 * y_idx)
        ymax == Min(line_bottom_y, 2 * y_idx + 2)
        line_px_left_y  == IF 2 * x_idx <= line_x THEN Min(ymin, ymax) ELSE ymax
        line_px_right_y == IF 2 * x_idx + 2 <= line_x THEN Min(ymin, ymax) ELSE ymax
    IN Abs(line_px_right_y - line_px_left_y)

\* `acc` before pixel x_idx of sub-row y_idx, in quarters
RECURSIVE AccBefore(_, _, _, _, _, _)
AccBefore(sign, line_x, line_top_y, line_bottom_y, x_idx, y_idx) ==
    IF x_idx = 0 THEN 0
    ELSE AccBefore(sign, line_x, line_top_y, line_bottom_y, x_idx - 1, y_idx)
         + sign * 2 * PixelH(line_x, line_top_y, line_bottom_y, x_idx - 1, y_idx)

\* strip.rs 113-204: integrate the line of tile `cur` into the location
Integrate(st, cur, row_y, lines) ==
    LET line == lines[cur.line_idx + 1]
        tile_left_x == cur.x * Tile_WIDTH * 2
        row_top_y == row_y * Tile_HEIGHT * 2
        p0_x == line.p0[1] - tile_left_x
        p0_y == line.p0[2] - row_top_y
        p1_x == line.p1[1] - tile_left_x
        p1_y == line.p1[2] - row_top_y
        sign == Signum(p0_y - p1_y)
        line_top_y == IF p0_y < p1_y THEN p0_y ELSE p1_y
        line_top_x == IF p0_y < p1_y THEN p0_x ELSE p1_x
        line_bottom_y == IF p0_y < p1_y THEN p1_y ELSE p0_y
        h(x_idx, y_idx) == PixelH(line_top_x, line_top_y, line_bottom_y, x_idx, y_idx)
        acc(x_idx, y_idx) == AccBefore(sign, line_top_x, line_top_y, line_bottom_y, x_idx, y_idx)
        \* area = 0.5 * h * (2 * (px_right_x - line_top_x)), as x_slope = 0
        area(x_idx, y_idx) == h(x_idx, y_idx) * (2 * x_idx + 2 - line_top_x)
    IN [st EXCEPT
          !.location_winding = [x \in 1..Tile_WIDTH |-> [y \in 1..Tile_HEIGHT |->
              @[x][y] + acc(x - 1, y - 1) + sign * area(x - 1, y - 1)]],
          !.accumulated_winding = [y \in 1..Tile_HEIGHT |-> @[y] + acc(Tile_WIDTH, y - 1)]]

\* the tile loop pushing out a strip at every new location: `prev_tile.x < tile.x`
RECURSIVE StripLoop_EveryLocation(_, _, _, _, _)
StripLoop_EveryLocation(st, tiles, i, row_y, lines) ==
    IF i > Len(tiles) THEN st
    ELSE LET cur == tiles[i]
             flushed == IF st.prev_tile.x < cur.x THEN FlushLocation(st, row_y) ELSE st
             next_strip == flushed.prev_tile.x < cur.x
             pushed == IF next_strip THEN PushStrip(flushed, cur, row_y) ELSE flushed
         IN IF next_strip /\ cur.x = U16_MAX THEN pushed
            ELSE StripLoop_EveryLocation(
                     Integrate([pushed EXCEPT !.prev_tile = cur], cur, row_y, lines),
                     tiles, i + 1, row_y, lines)

\* the loop `for tile in row.tiles.iter().copied().chain([GATE_CLOSER])`
RECURSIVE StripLoop(_, _, _, _, _)
StripLoop(st, tiles, i, row_y, lines) ==
    IF i > Len(tiles) THEN st
    ELSE LET cur == tiles[i]
             flushed == IF st.prev_tile.x < cur.x THEN FlushLocation(st, row_y) ELSE st
             next_strip == flushed.prev_tile.x + 1 < cur.x
             pushed == IF next_strip THEN PushStrip(flushed, cur, row_y) ELSE flushed
         IN IF next_strip /\ cur.x = U16_MAX THEN pushed
            ELSE StripLoop(Integrate([pushed EXCEPT !.prev_tile = cur], cur, row_y, lines),
                           tiles, i + 1, row_y, lines)

\* strip::generate_strips(row, row_y, lines, alpha_storage, strips);
\* acc = [alpha, strips, written] is what the call appends to
generate_strips(row, row_y, lines, acc) ==
    IF row.tiles = <<>> \/ lines = <<>> THEN acc
    ELSE LET st == StripLoop(
                     [prev_tile |-> row.tiles[1],
                      location_winding |-> [x \in 1..Tile_WIDTH |-> row.area_coverage],
                      accumulated_winding |-> row.area_coverage,
                      strip |-> [x |-> row.tiles[1].x, y |-> row_y, width |-> 0,
                                 pixel_coverage |-> [k \in 1..Tile_HEIGHT |->
                                                       CoverageToU8(row.area_coverage[k])],
                                 alpha_idx |-> Len(acc.alpha)],
                      alpha |-> acc.alpha, strips |-> acc.strips, written |-> acc.written],
                     Append(row.tiles, GATE_CLOSER), 1, row_y, lines)
         IN [alpha |-> st.alpha, strips |-> st.strips, written |-> st.written]

\* Bintje::strip: `for (y, row) in self.tile_rows.iter().enumerate()`
RECURSIVE StripRows(_, _, _, _)
StripRows(rows, y, lines, acc) ==
    IF y >= Len(rows) THEN acc
    ELSE StripRows(rows, y + 1, lines, generate_strips(rows[y + 1], y, lines, acc))

strip(rows, lines, alpha_masks, strips) ==
    StripRows(rows, 0, lines, [alpha |-> alpha_masks, strips |-> strips, written |-> {}])

\* ------------------------------------------------------------------ widener
\* brushes: a solid color with components in halves (0, 1/2, 1), or a gradient
RED == <<2, 0, 0, 2>>

\* `match brush { BrushRef::Solid(color) => color, _ => RED }`
BrushColor(brush) == IF brush.kind = "Solid" THEN brush.color ELSE RED

\* color.premultiply().to_rgba8(): PremulRgba8 as <<r, g, b, a>>
PremulRgba8(color) ==
    << CoverageToU8(color[1] * color[4]), CoverageToU8(color[2] * color[4]),
       CoverageToU8(color[3] * color[4]), CoverageToU8(2 * color[4]) >>

\* wide_tiles[idx].commands.insert(0, cmd)
PushCommand_Front(wide_tiles, idx, cmd) ==
    [wide_tiles EXCEPT ![idx + 1] = [commands |-> <<cmd>> \o @.commands]]

\* wide_tiles[idx].commands.push(cmd), idx counted from 0
PushCommand(wide_tiles, idx, cmd) ==
    [wide_tiles EXCEPT ![idx + 1] = [commands |-> Append(@.commands, cmd)]]

\* alpha_masks[alpha_idx .. alpha_idx + width * 16].iter().all(|a| *a == 0)
WindowAllZero(alpha_masks, alpha_idx, width) ==
    \A i \in alpha_idx..(alpha_idx + width * Tile_HEIGHT * Tile_WIDTH - 1) : alpha_masks[i + 1] = 0

\* wide_tile.rs 102-136: the sparse fills of the gap before strip c.strip
RECURSIVE GapLoop(_, _, _)
GapLoop(wide_tiles, wide_tile_x, c) ==
    LET start_wide_tile_x == c.prev_x \div WIDE_TILE_WIDTH_TILES
        end_wide_tile_x == c.strip.x \div WIDE_TILE_WIDTH_TILES
    IN IF wide_tile_x > end_wide_tile_x \/ wide_tile_x >= c.wide_tile_columns THEN wide_tiles
       ELSE LET x_start == IF wide_tile_x = start_wide_tile_x
                              THEN c.prev_x - start_wide_tile_x * WIDE_TILE_WIDTH_TILES
                              ELSE 0
                x_end == IF wide_tile_x = end_wide_tile_x
                            THEN c.strip.x - end_wide_tile_x * WIDE_TILE_WIDTH_TILES
                            ELSE WIDE_TILE_WIDTH_TILES
                cmd == IF c.strip.pixel_coverage = [k \in 1..Tile_HEIGHT |-> 255]
                          THEN [kind |-> "SparseFill", x |-> x_start, width |-> x_end - x_start,
                                color |-> c.color]
                          ELSE [kind |-> "SparseSample", x |-> x_start,
                                width |-> x_end - x_start, color |-> c.color,
                                alpha_mask |-> c.strip.pixel_coverage]
            IN GapLoop(PushCommand(wide_tiles,
                                   c.strip.y * c.wide_tile_columns + wide_tile_x, cmd),
                       wide_tile_x + 1, c)

\* the sample loop advancing alpha_idx only past the spans it emitted a Sample for
RECURSIVE SampleLoop_AdvanceOnEmit(_, _, _, _)
SampleLoop_AdvanceOnEmit(wide_tiles, wide_tile_x, alpha_idx, c) ==
    LET start_wide_tile_x == c.strip.x \div WIDE_TILE_WIDTH_TILES
        end_wide_tile_x == (c.strip.x + c.strip.width) \div WIDE_TILE_WIDTH_TILES
    IN IF wide_tile_x > end_wide_tile_x \/ wide_tile_x >= c.wide_tile_columns THEN wide_tiles
       ELSE LET x_start == IF wide_tile_x = start_wide_tile_x
                              THEN c.strip.x - start_wide_tile_x * WIDE_TILE_WIDTH_TILES
                              ELSE 0
                x_end == IF wide_tile_x = end_wide_tile_x
                            THEN c.strip.x + c.strip.width
                                 - end_wide_tile_x * WIDE_TILE_WIDTH_TILES
                            ELSE WIDE_TILE_WIDTH_TILES
                width == x_end - x_start
                all_zero == WindowAllZero(c.alpha_masks, alpha_idx, width)
                idx == c.strip.y * c.wide_tile_columns + wide_tile_x
            IN IF all_zero
                  THEN SampleLoop_AdvanceOnEmit(wide_tiles, wide_tile_x + 1, alpha_idx, c)
                  ELSE SampleLoop_AdvanceOnEmit(
                           PushCommand(wide_tiles, idx,
                                       [kind |-> "Sample", x |-> x_start, width |-> width,
                                        color |-> c.color, alpha_idx |-> alpha_idx]),
                           wide_tile_x + 1, alpha_idx + width * Tile_WIDTH * Tile_HEIGHT, c)

\* the sample loop without the split at wide tile boundaries: one Sample for the whole strip
\* in the wide tile the strip starts in
RECURSIVE SampleLoop_Unsplit(_, _, _, _)
SampleLoop_Unsplit(wide_tiles, wide_tile_x, alpha_idx, c) ==
    IF wide_tile_x >= c.wide_tile_columns
          \/ WindowAllZero(c.alpha_masks, alpha_idx, c.strip.width)
       THEN wide_tiles
       ELSE PushCommand(wide_tiles, c.strip.y * c.wide_tile_columns + wide_tile_x,
                        [kind |-> "Sample",
                         x |-> c.strip.x - wide_tile_x * WIDE_TILE_WIDTH_TILES,
                         width |-> c.strip.width, color |-> c.color, alpha_idx |-> alpha_idx])

\* wide_tile.rs 144-193: the alpha mask samples of strip c.strip
RECURSIVE SampleLoop(_, _, _, _)
SampleLoop(wide_tiles, wide_tile_x, alpha_idx, c) ==
    LET start_wide_tile_x == c.strip.x \div WIDE_TILE_WIDTH_TILES
        end_wide_tile_x == (c.strip.x + c.strip.width) \div WIDE_TILE_WIDTH_TILES
    IN IF wide_tile_x > end_wide_tile_x \/ wide_tile_x >= c.wide_tile_columns THEN wide_tiles
       ELSE LET x_start == IF wide_tile_x = start_wide_tile_x
                              THEN c.strip.x - start_wide_tile_x * WIDE_TILE_WIDTH_TILES
                              ELSE 0
                x_end == IF wide_tile_x = end_wide_tile_x
                            THEN c.strip.x + c.strip.width
                                 - end_wide_tile_x * WIDE_TILE_WIDTH_TILES
                            ELSE WIDE_TILE_WIDTH_TILES
                width == x_end - x_start
                all_zero == WindowAllZero(c.alpha_masks, alpha_idx, width)
                idx == c.strip.y * c.wide_tile_columns + wide_tile_x
                pushed == IF ~all_zero
                             THEN IF all_zero
                                     THEN PushCommand(wide_tiles, idx,
                                            [kind |-> "SparseFill", x |-> x_start,
                                             width |-> width, color |-> c.color])
                                     ELSE PushCommand(wide_tiles, idx,
                                            [kind |-> "Sample", x |-> x_start, width |-> width,
                                             color |-> c.color, alpha_idx |-> alpha_idx])
                             ELSE wide_tiles
            IN SampleLoop(pushed, wide_tile_x + 1,
                          alpha_idx + width * Tile_WIDTH * Tile_HEIGHT, c)

\* the loop over the strips with the gap test `prev_x < strip.x` alone
RECURSIVE WidenLoop_NoCoverageTest(_, _, _, _)
WidenLoop_NoCoverageTest(wide_tiles, strips, i, c) ==
    IF i > Len(strips) THEN wide_tiles
    ELSE LET s == strips[i]
             cs == [c EXCEPT !.strip = s]
         IN IF s.y >= c.wide_tile_rows THEN wide_tiles
            ELSE LET gaps == IF c.prev_x < s.x
                                THEN GapLoop(wide_tiles, c.prev_x \div WIDE_TILE_WIDTH_TILES, cs)
                                ELSE wide_tiles
                     samples == SampleLoop(gaps, s.x \div WIDE_TILE_WIDTH_TILES, s.alpha_idx, cs)
                 IN WidenLoop_NoCoverageTest(samples, strips, i + 1,
                                             [c EXCEPT !.prev_x = s.x + s.width])

\* wide_tile.rs 82-196: the loop over the strips, carrying prev_x
RECURSIVE WidenLoop(_, _, _, _)
WidenLoop(wide_tiles, strips, i, c) ==
    IF i > Len(strips) THEN wide_tiles
    ELSE LET s == strips[i]
             cs == [c EXCEPT !.strip = s]
         IN IF s.y >= c.wide_tile_rows THEN wide_tiles
            ELSE LET gaps == IF s.pixel_coverage # [k \in 1..Tile_HEIGHT |-> 0] /\ c.prev_x < s.x
                                THEN GapLoop(wide_tiles, c.prev_x \div WIDE_TILE_WIDTH_TILES, cs)
                                ELSE wide_tiles
                     samples == SampleLoop(gaps, s.x \div WIDE_TILE_WIDTH_TILES, s.alpha_idx, cs)
                 IN WidenLoop(samples, strips, i + 1, [c EXCEPT !.prev_x = s.x + s.width])

\* wide_tile.rs 120 and 162: `(wide_tile_y * wide_tile_columns + wide_tile_x) as usize`, in
\* u16. An overflow panics in a build with overflow checks and wraps in one without.
WideTileIndex(wide_tile_y, wide_tile_columns, wide_tile_x, overflow_checks) ==
    LET product == wide_tile_y * wide_tile_columns
        sum == (product % 65536) + wide_tile_x
    IN [idx |-> sum % 65536,
        panicked |-> overflow_checks /\ (product > U16_MAX \/ sum > U16_MAX)]

\* wide_tile::generate_wide_tile_commands(width, wide_tiles, strips, alpha_masks, brush)
generate_wide_tile_commands(width, wide_tiles, strips, alpha_masks, brush) ==
    LET wide_tile_columns == DivCeil(width, WIDE_TILE_WIDTH_PX)
    IN WidenLoop(wide_tiles, strips, 1,
                 [wide_tile_columns |-> wide_tile_columns,
                  wide_tile_rows |-> Len(wide_tiles) \div wide_tile_columns,
                  prev_x |-> 0,
                  strip |-> <<>>,
                  color |-> PremulRgba8(BrushColor(brush)),
                  alpha_masks |-> alpha_masks])

\* ----------------------------------------------------- CPU fine rasterizer
TRANSPARENT == <<0, 0, 0, 0>>

\* mul_alpha that scales the alpha channel only
mul_alpha_AlphaOnly(color, alpha) ==
    [k \in 1..4 |-> IF k = 4 THEN (((color[k] * alpha) % 65536) \div 255) % 256 ELSE color[k]]

\* mul_alpha (integer path): the u16 product, divided by 255, truncated to u8
mul_alpha(color, alpha) == [k \in 1..4 |-> (((color[k] * alpha) % 65536) \div 255) % 256]

\* over with `256 - over[3]` in place of `255 - over[3]`
over_Off(under, ov) ==
    [k \in 1..4 |-> (((ov[k] * 255 + under[k] * (256 - ov[4])) % 65536) \div 255) % 256]

\* over (integer path), in u16 arithmetic
over(under, ov) ==
    [k \in 1..4 |-> (((ov[k] * 255 + under[k] * (255 - ov[4])) % 65536) \div 255) % 256]

\* the index a Sample reads for its pixel column x and sub-row y:
\* `sample.alpha_idx as usize + x as usize * Tile::HEIGHT as usize + y as usize`
SampleAlphaIdx(cmd, x, y) == cmd.alpha_idx + x * Tile_HEIGHT + y

\* the effect of a sub-row with the shortcut taken for `color.a >= 128`
CommandRow_EagerFill(px, cmd, alpha_masks, k, y) ==
    LET idx == y * WIDE_TILE_WIDTH_PX + cmd.x * Tile_WIDTH
        x == k - idx
    IN IF ~(0 <= x /\ x < cmd.width * Tile_WIDTH) THEN px
       ELSE CASE cmd.kind = "Sample" ->
                   over(px, mul_alpha(cmd.color, alpha_masks[SampleAlphaIdx(cmd, x, y) + 1]))
              [] cmd.kind = "SparseSample" ->
                   over(px, mul_alpha(cmd.color, cmd.alpha_mask[y + 1]))
              [] cmd.kind = "SparseFill" ->
                   IF cmd.color[4] >= 128 THEN cmd.color ELSE over(px, cmd.color)

\* the effect of sub-row y of one command on scratch[k]
CommandRow(px, cmd, alpha_masks, k, y) ==
    LET idx == y * WIDE_TILE_WIDTH_PX + cmd.x * Tile_WIDTH
        x == k - idx
    IN IF ~(0 <= x /\ x < cmd.width * Tile_WIDTH) THEN px
       ELSE CASE cmd.kind = "Sample" ->
                   over(px, mul_alpha(cmd.color, alpha_masks[SampleAlphaIdx(cmd, x, y) + 1]))
              [] cmd.kind = "SparseSample" ->
                   over(px, mul_alpha(cmd.color, cmd.alpha_mask[y + 1]))
              [] cmd.kind = "SparseFill" ->
                   IF cmd.color[4] = 255 THEN cmd.color ELSE over(px, cmd.color)

RECURSIVE CommandRows(_, _, _, _, _)
CommandRows(px, cmd, alpha_masks, k, y) ==
    IF y >= Tile_HEIGHT THEN px
    ELSE CommandRows(CommandRow(px, cmd, alpha_masks, k, y), cmd, alpha_masks, k, y + 1)

\* scratch[k] after the first n commands of a wide tile
RECURSIVE Scratch(_, _, _, _)
Scratch(commands, alpha_masks, k, n) ==
    IF n = 0 THEN TRANSPARENT
    ELSE CommandRows(Scratch(commands, alpha_masks, k, n - 1), commands[n], alpha_masks, k, 0)

\* cpu_rasterize that asserts the number of wide tiles but not the length of img
cpu_rasterize_asserts_TilesOnly(width, height, img_len, wide_tiles) ==
    Len(wide_tiles) = DivCeil(width, WIDE_TILE_WIDTH_PX) * DivCeil(height, Tile_HEIGHT)

\* the assertions cpu_rasterize makes on its arguments
cpu_rasterize_asserts(width, height, img_len, wide_tiles) ==
    /\ img_len = width * height
    /\ Len(wide_tiles) = DivCeil(width, WIDE_TILE_WIDTH_PX) * DivCeil(height, Tile_HEIGHT)

\* cpu_rasterize: the pixel written to img[py * width + px]
ImgPixel(width, height, alpha_masks, wide_tiles, px, py) ==
    LET wide_tile_columns == DivCeil(width, WIDE_TILE_WIDTH_PX)
        wide_tile_idx == (py \div Tile_HEIGHT) * wide_tile_columns + (px \div WIDE_TILE_WIDTH_PX)
        commands == wide_tiles[wide_tile_idx + 1].commands
    IN Scratch(commands, alpha_masks,
               (py % Tile_HEIGHT) * WIDE_TILE_WIDTH_PX + (px % WIDE_TILE_WIDTH_PX),
               Len(commands))

\* the copy-out without `if img_x >= width { break; }`: the last column of wide tiles is
\* copied in full
RECURSIVE CopyOut_NoClip(_, _, _)
CopyOut_NoClip(c, st, n) ==
    IF st.panicked \/ n >= c.wide_tile_rows * c.wide_tile_columns * Tile_HEIGHT THEN st
    ELSE LET wide_tile_idx == n \div Tile_HEIGHT
             y == n % Tile_HEIGHT
             wide_tile_x == wide_tile_idx % c.wide_tile_columns
             img_y == (wide_tile_idx \div c.wide_tile_columns) * Tile_HEIGHT + y
             img_x == wide_tile_x * WIDE_TILE_WIDTH_PX
             img_idx == img_y * c.width + img_x
             count == IF wide_tile_x + 1 < c.wide_tile_columns
                         THEN WIDE_TILE_WIDTH_PX
                         ELSE WIDE_TILE_WIDTH_PX
             fits == IF wide_tile_x + 1 < c.wide_tile_columns
                        THEN IF img_idx + count <= Len(st.img) THEN count ELSE 0
                        ELSE Max(0, Min(count, Len(st.img) - img_idx))
         IN IF wide_tile_idx >= Len(c.wide_tiles) THEN [st EXCEPT !.panicked = TRUE]
            ELSE IF img_y >= c.height THEN CopyOut_NoClip(c, st, n + 1)
            ELSE CopyOut_NoClip(c,
                         [img |-> [k \in 1..Len(st.img) |->
                                      IF img_idx < k /\ k <= img_idx + fits
                                         THEN ImgPixel(c.width, c.height, c.alpha_masks,
                                                       c.wide_tiles, img_x + (k - 1 - img_idx), img_y)
                                         ELSE st.img[k]],
                          stores |-> st.stores \cup (img_idx..(img_idx + fits - 1)),
                          nstores |-> st.nstores + fits,
                          panicked |-> fits < count],
                         n + 1)

\* wide_tile.rs 303-329: row `n mod Tile::HEIGHT` of wide tile `n div Tile::HEIGHT` copied
\* out of the scratch buffer, and the rows after it. An index or a slice outside `img` or
\* outside `wide_tiles` panics where the code reaches it: a slice before any of its pixels
\* is copied, the pixel loop at the first pixel outside.
RECURSIVE CopyOut(_, _, _)
CopyOut(c, st, n) ==
    IF st.panicked \/ n >= c.wide_tile_rows * c.wide_tile_columns * Tile_HEIGHT THEN st
    ELSE LET wide_tile_idx == n \div Tile_HEIGHT
             y == n % Tile_HEIGHT
             wide_tile_x == wide_tile_idx % c.wide_tile_columns
             img_y == (wide_tile_idx \div c.wide_tile_columns) * Tile_HEIGHT + y
             img_x == wide_tile_x * WIDE_TILE_WIDTH_PX
             img_idx == img_y * c.width + img_x
             count == IF wide_tile_x + 1 < c.wide_tile_columns
                         THEN WIDE_TILE_WIDTH_PX
                         ELSE Min(WIDE_TILE_WIDTH_PX, c.width - img_x)
             fits == IF wide_tile_x + 1 < c.wide_tile_columns
                        THEN IF img_idx + count <= Len(st.img) THEN count ELSE 0
                        ELSE Max(0, Min(count, Len(st.img) - img_idx))
         IN IF wide_tile_idx >= Len(c.wide_tiles) THEN [st EXCEPT !.panicked = TRUE]
            ELSE IF img_y >= c.height THEN CopyOut(c, st, n + 1)
            ELSE CopyOut(c,
                         [img |-> [k \in 1..Len(st.img) |->
                                      IF img_idx < k /\ k <= img_idx + fits
                                         THEN ImgPixel(c.width, c.height, c.alpha_masks,
                                                       c.wide_tiles, img_x + (k - 1 - img_idx), img_y)
                                         ELSE st.img[k]],
                          stores |-> st.stores \cup (img_idx..(img_idx + fits - 1)),
                          nstores |-> st.nstores + fits,
                          panicked |-> fits < count],
                         n + 1)

\* wide_tile::cpu_rasterize(width, height, img, alpha_masks, wide_tiles): img afterwards,
\* the indices of img it stored to, the number of stores, and whether it panicked
cpu_rasterize(width, height, img, alpha_masks, wide_tiles) ==
    IF ~cpu_rasterize_asserts(width, height, Len(img), wide_tiles)
       THEN [img |-> img, stores |-> {}, nstores |-> 0, panicked |-> TRUE]
       ELSE CopyOut([width |-> width, height |-> height, alpha_masks |-> alpha_masks,
                     wide_tiles |-> wide_tiles,
                     wide_tile_rows |-> DivCeil(height, Tile_HEIGHT),
                     wide_tile_columns |-> DivCeil(width, WIDE_TILE_WIDTH_PX)],
                    [img |-> img, stores |-> {}, nstores |-> 0, panicked |-> FALSE], 0)

\* ------------------------------------------------------------ GPU batching
\* State of Rasterizer::rasterize: g = [instances, alpha_masks_buffer, len, instances_offset,
\* alpha_masks_buffer_step, render_target_cleared, passes, submits, panicked]. The batch
\* buffer is kept as the slices of the alpha pool copied into it: `src` and `len` of each
\* slice and the offset `at` in the batch buffer where it went; `len` is the buffer's length.

\* Rasterizer::add_draw_render_pass: the batch as it is uploaded and drawn
add_draw_render_pass(g) ==
    [g EXCEPT !.passes = Append(@, [instances |-> g.instances,
                                    alpha_masks |-> g.alpha_masks_buffer,
                                    instances_offset |-> g.instances_offset,
                                    alpha_mask_buf_step |-> g.alpha_masks_buffer_step,
                                    clear_texture |-> ~g.render_target_cleared])]

\* bintje_wgpu lib.rs 421-437: the batch is drawn and emptied when the Sample does not fit
FlushIfFull(g, alpha_idx, alpha_mask_size) ==
    IF alpha_idx + alpha_mask_size > MAX_UNIFORM_BUFFER_BINDING_SIZE
       THEN [add_draw_render_pass(g) EXCEPT
                !.instances_offset = g.instances_offset + Len(g.instances),
                !.instances = <<>>,
                !.alpha_masks_buffer = <<>>,
                !.len = 0,
                !.alpha_masks_buffer_step = g.alpha_masks_buffer_step + 1,
                !.render_target_cleared = TRUE]
       ELSE g

\* bintje_wgpu lib.rs 438-453: the encoder is submitted when the alpha masks buffer is used up
SubmitIfUsedUp(g) ==
    IF g.alpha_masks_buffer_step = ALPHA_MASKS_BUFFER_SIZE \div MAX_UNIFORM_BUFFER_BINDING_SIZE
       THEN [g EXCEPT !.submits = @ + 1, !.alpha_masks_buffer_step = 0, !.instances_offset = 0]
       ELSE g

\* bintje_wgpu lib.rs 414-479: one command of wide tile (wide_tile_x, wide_tile_y); `of` tells
\* which command of which wide tile an instance was made for
GpuCommand(g, cmd, of, wide_tile_x, wide_tile_y, alpha_masks_len) ==
    CASE cmd.kind = "Sample" ->
            LET alpha_mask_size == cmd.width * Tile_WIDTH * Tile_HEIGHT
                alpha_idx == g.len
                b == SubmitIfUsedUp(FlushIfFull(g, alpha_idx, alpha_mask_size))
            IN IF cmd.alpha_idx + alpha_mask_size > alpha_masks_len
                  THEN [b EXCEPT !.panicked = TRUE]
                  ELSE [b EXCEPT
                          !.alpha_masks_buffer = Append(@, [src |-> cmd.alpha_idx,
                                                            len |-> alpha_mask_size,
                                                            at |-> b.len]),
                          !.len = @ + alpha_mask_size,
                          !.instances = Append(@,
                             [x |-> (((wide_tile_x * WIDE_TILE_WIDTH_TILES + cmd.x) % 65536)
                                     * Tile_WIDTH) % 65536,
                              y |-> (wide_tile_y * Tile_HEIGHT) % 65536,
                              width |-> (cmd.width * Tile_WIDTH) % 65536,
                              color |-> cmd.color,
                              alpha_idx |-> (alpha_idx % 65536) \div (Tile_WIDTH * Tile_HEIGHT),
                              of |-> of])]
      [] cmd.kind = "SparseFill" ->
            [g EXCEPT !.instances = Append(@,
                             [x |-> (((wide_tile_x * WIDE_TILE_WIDTH_TILES + cmd.x) % 65536)
                                     * Tile_WIDTH) % 65536,
                              y |-> (wide_tile_y * Tile_HEIGHT) % 65536,
                              width |-> (cmd.width * Tile_WIDTH) % 65536,
                              color |-> cmd.color,
                              alpha_idx |-> U16_MAX,
                              of |-> of])]
      [] OTHER -> g

\* bintje_wgpu lib.rs 408-481: the commands of wide tile idx from the n-th on, then the wide
\* tiles after it
RECURSIVE GpuLoop(_, _, _, _, _, _)
GpuLoop(g, wide_tiles, idx, n, wide_tiles_per_row, alpha_masks_len) ==
    IF g.panicked \/ idx >= Len(wide_tiles) THEN g
    ELSE IF n > Len(wide_tiles[idx + 1].commands)
            THEN GpuLoop(g, wide_tiles, idx + 1, 1, wide_tiles_per_row, alpha_masks_len)
    ELSE LET wide_tile_y == (idx \div wide_tiles_per_row) % 65536
             wide_tile_x == (idx - wide_tile_y * wide_tiles_per_row) % 65536
         IN GpuLoop(GpuCommand(g, wide_tiles[idx + 1].commands[n], <<idx, n>>,
                               wide_tile_x, wide_tile_y, alpha_masks_len),
                    wide_tiles, idx, n + 1, wide_tiles_per_row, alpha_masks_len)

\* Rasterizer::rasterize(alpha_masks, wide_tiles, width, dest_img), up to the last submit;
\* of alpha_masks the length is what the batching depends on
rasterize(alpha_masks_len, wide_tiles, width) ==
    LET g == GpuLoop([instances |-> <<>>, alpha_masks_buffer |-> <<>>, len |-> 0,
                      instances_offset |-> 0, alpha_masks_buffer_step |-> 0,
                      render_target_cleared |-> FALSE, passes |-> <<>>, submits |-> 0,
                      panicked |-> FALSE],
                     wide_tiles, 0, 1, DivCeil(width, WIDE_TILE_WIDTH_PX), alpha_masks_len)
    IN IF ~g.panicked /\ g.instances # <<>>
          THEN [add_draw_render_pass(g) EXCEPT !.submits = @ + 1]
          ELSE g

\* ------------------------------------------------------------ scene context
VARIABLES width, height, transform_stack, current_transform, current_scale,
          wide_tiles, alpha_masks, lines, tile_rows, strips,
          written,     \* per pixel, the coverage byte the striper computed in the last submission
          submitted,   \* the submissions since new() or the last clear()
          saved,       \* for every push_transform not yet popped, the transform and scale before
                       \* it and the transform it pushed
          lastOp,      \* the operation that led to this state, the one before it, and the
                       \* stack depth and number of commands it found
          nsubmitted,  \* the number of submissions since new()
          img,         \* the output buffer handed to the last cpu_rasterize, as it left it
          rasterized,  \* the arguments and the outcome of the last cpu_rasterize
          pixel,       \* a destination pixel, a command color and an alpha byte, and their composite
          gpu,         \* the arguments of the last Rasterizer::rasterize and the passes it drew
          widened      \* a canvas size and a strip, and the wide tile index the widener computes

scene == <<width, height, transform_stack, current_transform, current_scale,
           wide_tiles, alpha_masks, lines, tile_rows, strips>>
vars == <<width, height, transform_stack, current_transform, current_scale,
          wide_tiles, alpha_masks, lines, tile_rows, strips,
          written, submitted, saved, lastOp, nsubmitted, img, rasterized, pixel, gpu, widened>>
fine == <<img, rasterized, pixel, gpu, widened>>

\* canvas sizes (width, height) in pixels
Canvases == { <<8, 8>>, <<12, 8>>, <<130, 6>> }

\* rectangle corners in half pixels: -4, 0.5, 4, 6, 12, 126, 130 px and 0, 0.5, 2, 6, 8 px
RectXs == { -8, 1, 8, 12, 24, 252, 260 }
RectYs == { 0, 1, 4, 12, 16 }
Corners == { c \in RectXs \X RectYs \X RectXs \X RectYs : c[1] < c[3] /\ c[2] < c[4] }
\* paths of two rectangles: two shapes apart from each other in a row, and a shape that
\* ends on a tile boundary just left of a wide tile boundary next to one right of it
CompoundPaths == { RectPath(1, 0, 6, 16) \o RectPath(252, 0, 260, 16),
                   RectPath(8, 0, 248, 16) \o RectPath(260, 0, 264, 16) }
Paths == { RectPath(c[1], c[2], c[3], c[4]) : c \in Corners } \cup CompoundPaths

Brushes == { [kind |-> "Solid", color |-> RED],
             [kind |-> "Solid", color |-> <<0, 0, 2, 1>>],
             [kind |-> "Gradient"] }

\* the scenes of several submissions draw from these
SceneCanvases == { <<12, 8>>, <<130, 6>> }
ScenePaths == { RectPath(-8, 1, 18, 13) }      \* Rect(-4, 0.5, 9, 6.5)
SceneBrushes == { [kind |-> "Solid", color |-> <<0, 0, 2, 1>>] }

\* scale by 2 and translate by (4, 0) px
Transforms == { <<2, 0, 0, 2, 8, 0>> }

\* stroked paths: a vertical segment (x, y0) -> (x, y1) and a stroke width, in half pixels
Strokes == { [x |-> 6, y0 |-> 2, y1 |-> 14, width |-> 4],
             [x |-> 256, y0 |-> 1, y1 |-> 11, width |-> 8] }
SceneStrokes == { [x |-> 256, y0 |-> 1, y1 |-> 11, width |-> 8] }

\* flatten::stroke::stroke_undashed for such a segment with butt caps: the outline
stroke_undashed(st) ==
    LET l == st.x - st.width \div 2
        r == st.x + st.width \div 2
    IN << MkLine(<<r, st.y0>>, <<r, st.y1>>), MkLine(<<r, st.y1>>, <<l, st.y1>>),
          MkLine(<<l, st.y1>>, <<l, st.y0>>), MkLine(<<l, st.y0>>, <<r, st.y0>>) >>

\* the number of commands in all wide tiles
RECURSIVE CommandCount(_, _)
CommandCount(wts, n) ==
    IF n = 0 THEN 0 ELSE CommandCount(wts, n - 1) + Len(wts[n].commands)

\* the record of operation `op` made in the current state
Op(op) == [op |-> op, after |-> lastOp.op, depth |-> Len(transform_stack),
           commands |-> CommandCount(wide_tiles, Len(wide_tiles))]

\* Bintje::new with `height / Tile::HEIGHT` in place of `height.div_ceil(Tile::HEIGHT)`
new_Floor(w, h) ==
    LET wide_tile_columns == DivCeil(w, WIDE_TILE_WIDTH_PX)
        wide_tile_rows == h \div Tile_HEIGHT
    IN /\ width = w
       /\ height = h
       /\ transform_stack = <<>>
       /\ current_transform = IDENTITY
       /\ current_scale = 1
       /\ wide_tiles = [i \in 1..(wide_tile_columns * wide_tile_rows) |-> [commands |-> <<>>]]
       /\ alpha_masks = <<>>
       /\ lines = <<>>
       /\ tile_rows = [i \in 1..wide_tile_rows |-> TileRow_new]
       /\ strips = <<>>

\* Bintje::new(width, height)
new(w, h) ==
    LET wide_tile_columns == DivCeil(w, WIDE_TILE_WIDTH_PX)
        wide_tile_rows == DivCeil(h, Tile_HEIGHT)
    IN /\ width = w
       /\ height = h
       /\ transform_stack = <<>>
       /\ current_transform = IDENTITY
       /\ current_scale = 1
       /\ wide_tiles = [i \in 1..(wide_tile_columns * wide_tile_rows) |-> [commands |-> <<>>]]
       /\ alpha_masks = <<>>
       /\ lines = <<>>
       /\ tile_rows = [i \in 1..wide_tile_rows |-> TileRow_new]
       /\ strips = <<>>

InitGhost ==
    /\ written = {}
    /\ submitted = <<>>
    /\ saved = <<>>
    /\ lastOp = [op |-> "new", after |-> "none", depth |-> 0, commands |-> 0]
    /\ nsubmitted = 0
    /\ img = <<>>
    /\ rasterized = [called |-> FALSE]
    /\ pixel = [composited |-> FALSE]
    /\ gpu = [called |-> FALSE]
    /\ widened = [indexed |-> FALSE]

Init == (\E c \in SceneCanvases : new(c[1], c[2])) /\ InitGhost

\* the pipeline without `tile_row.clear()`: the rows keep the tiles of the last submission
Pipeline_KeepRows(ls, brush) ==
    LET rows == tile(tile_rows, width, ls)
        out == strip(rows, ls, alpha_masks, <<>>)
    IN /\ lines' = ls
       /\ tile_rows' = rows
       /\ strips' = out.strips
       /\ alpha_masks' = out.alpha
       /\ written' = out.written
       /\ wide_tiles' = generate_wide_tile_commands(width, wide_tiles, out.strips, out.alpha, brush)

\* self.tile(); self.strip(); self.widen(brush) on the lines `ls`
Pipeline(ls, brush) ==
    LET cleared_rows == [r \in 1..Len(tile_rows) |-> TileRow_new]
        rows == tile(cleared_rows, width, ls)
        out == strip(rows, ls, alpha_masks, <<>>)
    IN /\ lines' = ls
       /\ tile_rows' = rows
       /\ strips' = out.strips
       /\ alpha_masks' = out.alpha
       /\ written' = out.written
       /\ wide_tiles' = generate_wide_tile_commands(width, wide_tiles, out.strips, out.alpha, brush)

\* Bintje::fill_shape(path, brush)
fill_shape(path, brush) ==
    /\ nsubmitted < MaxSubmissions
    /\ Pipeline(flatten_path(<<>>, current_transform, path), brush)
    /\ submitted' = Append(submitted, [op |-> "fill_shape", path |-> path, brush |-> brush,
                                       transform |-> current_transform])
    /\ lastOp' = Op("fill_shape")
    /\ nsubmitted' = nsubmitted + 1
    /\ UNCHANGED <<width, height, transform_stack, current_transform, current_scale, saved>>
    /\ UNCHANGED fine

\* the watertightness patch of stroke: snap p0 to the previous p1 when (p0 - p1).hypot2() < 0.2
SnapLines(ls) ==
    [i \in 1..Len(ls) |->
        IF i > 1 /\ 5 * ((ls[i].p0[1] - ls[i - 1].p1[1]) * (ls[i].p0[1] - ls[i - 1].p1[1])
                         + (ls[i].p0[2] - ls[i - 1].p1[2]) * (ls[i].p0[2] - ls[i - 1].p1[2])) < 4
           THEN [ls[i] EXCEPT !.p0 = ls[i - 1].p1]
           ELSE ls[i]]

\* Bintje::stroke(path, style, brush)
stroke(st, brush) ==
    /\ nsubmitted < MaxSubmissions
    /\ LET snapped == SnapLines(stroke_undashed(st))
       IN Pipeline([i \in 1..Len(snapped) |->
                       MkLine(AffinePoint(current_transform, snapped[i].p0),
                              AffinePoint(current_transform, snapped[i].p1))], brush)
    /\ submitted' = Append(submitted, [op |-> "stroke", path |-> st, brush |-> brush,
                                       transform |-> current_transform])
    /\ lastOp' = Op("stroke")
    /\ nsubmitted' = nsubmitted + 1
    /\ UNCHANGED <<width, height, transform_stack, current_transform, current_scale, saved>>
    /\ UNCHANGED fine

\* Bintje::clear without `self.current_scale = 1.`
clear_KeepScale ==
    /\ wide_tiles' = [i \in 1..Len(wide_tiles) |-> [commands |-> <<>>]]
    /\ transform_stack' = <<>>
    /\ current_transform' = IDENTITY
    /\ submitted' = <<>>
    /\ saved' = <<>>
    /\ lastOp' = Op("clear")
    /\ UNCHANGED <<width, height, current_scale, alpha_masks, lines, tile_rows, strips,
                   written, nsubmitted>>
    /\ UNCHANGED fine

\* Bintje::clear with `self.transform_stack.pop()` in place of `self.transform_stack.clear()`
clear_PopOne ==
    /\ wide_tiles' = [i \in 1..Len(wide_tiles) |-> [commands |-> <<>>]]
    /\ transform_stack' = SubSeq(transform_stack, 1, Len(transform_stack) - 1)
    /\ current_transform' = IDENTITY
    /\ current_scale' = 1
    /\ submitted' = <<>>
    /\ saved' = <<>>
    /\ lastOp' = Op("clear")
    /\ UNCHANGED <<width, height, alpha_masks, lines, tile_rows, strips, written, nsubmitted>>
    /\ UNCHANGED fine

\* Bintje::clear()
clear ==
    /\ wide_tiles' = [i \in 1..Len(wide_tiles) |-> [commands |-> <<>>]]
    /\ transform_stack' = <<>>
    /\ current_transform' = IDENTITY
    /\ current_scale' = 1
    /\ submitted' = <<>>
    /\ saved' = <<>>
    /\ lastOp' = Op("clear")
    /\ UNCHANGED <<width, height, alpha_masks, lines, tile_rows, strips, written, nsubmitted>>
    /\ UNCHANGED fine

\* Bintje::push_transform with `transform * self.current_transform`
push_transform_Reversed(transform) ==
    /\ Len(transform_stack) < MaxDepth
    /\ transform_stack' = Append(transform_stack,
                                 [transform |-> current_transform, scale |-> current_scale])
    /\ current_transform' = AffineMul(transform, current_transform)
    /\ current_scale' = ScaleOf(current_transform')
    /\ saved' = Append(saved, [transform |-> current_transform, scale |-> current_scale,
                               pushed |-> transform])
    /\ lastOp' = Op("push_transform")
    /\ UNCHANGED <<width, height, wide_tiles, alpha_masks, lines, tile_rows, strips,
                   written, submitted, nsubmitted>>
    /\ UNCHANGED fine

\* Bintje::push_transform(transform)
push_transform(transform) ==
    /\ Len(transform_stack) < MaxDepth
    /\ transform_stack' = Append(transform_stack,
                                 [transform |-> current_transform, scale |-> current_scale])
    /\ current_transform' = AffineMul(current_transform, transform)
    /\ current_scale' = ScaleOf(current_transform')
    /\ saved' = Append(saved, [transform |-> current_transform, scale |-> current_scale,
                               pushed |-> transform])
    /\ lastOp' = Op("push_transform")
    /\ UNCHANGED <<width, height, wide_tiles, alpha_masks, lines, tile_rows, strips,
                   written, submitted, nsubmitted>>
    /\ UNCHANGED fine

\* Bintje::pop_transform that restores the transform but not the scale
pop_transform_KeepScale ==
    /\ IF transform_stack # <<>>
          THEN /\ current_transform' = transform_stack[Len(transform_stack)].transform
               /\ current_scale' = current_scale
               /\ transform_stack' = SubSeq(transform_stack, 1, Len(transform_stack) - 1)
          ELSE UNCHANGED <<transform_stack, current_transform, current_scale>>
    /\ saved' = IF saved # <<>> THEN SubSeq(saved, 1, Len(saved) - 1) ELSE saved
    /\ lastOp' = Op("pop_transform")
    /\ UNCHANGED <<width, height, wide_tiles, alpha_masks, lines, tile_rows, strips,
                   written, submitted, nsubmitted>>
    /\ UNCHANGED fine

\* Bintje::pop_transform with `self.transform_stack.pop().unwrap_or_default()`:
\* an empty stack yields Transform::default(), whose scale is 0
pop_transform_OrDefault ==
    /\ IF transform_stack # <<>>
          THEN /\ current_transform' = transform_stack[Len(transform_stack)].transform
               /\ current_scale' = transform_stack[Len(transform_stack)].scale
               /\ transform_stack' = SubSeq(transform_stack, 1, Len(transform_stack) - 1)
          ELSE /\ current_transform' = IDENTITY
               /\ current_scale' = 0
               /\ transform_stack' = transform_stack
    /\ saved' = IF saved # <<>> THEN SubSeq(saved, 1, Len(saved) - 1) ELSE saved
    /\ lastOp' = Op("pop_transform")
    /\ UNCHANGED <<width, height, wide_tiles, alpha_masks, lines, tile_rows, strips,
                   written, submitted, nsubmitted>>
    /\ UNCHANGED fine

\* Bintje::pop_transform()
pop_transform ==
    /\ IF transform_stack # <<>>
          THEN /\ current_transform' = transform_stack[Len(transform_stack)].transform
               /\ current_scale' = transform_stack[Len(transform_stack)].scale
               /\ transform_stack' = SubSeq(transform_stack, 1, Len(transform_stack) - 1)
          ELSE UNCHANGED <<transform_stack, current_transform, current_scale>>
    /\ saved' = IF saved # <<>> THEN SubSeq(saved, 1, Len(saved) - 1) ELSE saved
    /\ lastOp' = Op("pop_transform")
    /\ UNCHANGED <<width, height, wide_tiles, alpha_masks, lines, tile_rows, strips,
                   written, submitted, nsubmitted>>
    /\ UNCHANGED fine

Next ==
    \/ \E path \in ScenePaths, brush \in SceneBrushes : fill_shape(path, brush)
    \/ \E st \in SceneStrokes, brush \in SceneBrushes : stroke(st, brush)
    \/ clear
    \/ \E transform \in Transforms : push_transform(transform)
    \/ pop_transform

Spec == Init /\ [][Next]_vars

\* One submission to a fresh scene: new(W, H) followed by one fill_shape or stroke
InitFresh == (\E c \in Canvases : new(c[1], c[2])) /\ InitGhost

NextFresh ==
    /\ lastOp.op = "new"
    /\ \/ \E path \in Paths, brush \in Brushes : fill_shape(path, brush)
       \/ \E st \in Strokes, brush \in Brushes : stroke(st, brush)

SpecFresh == InitFresh /\ [][NextFresh]_vars

\* ------------------------------------------------------------- transforms
\* two transforms that do not commute: scale by 2 and translate by (4, 0) px; scale y by 3
\* and translate by (0, 2) px
StackTransforms == { <<2, 0, 0, 2, 8, 0>>, <<1, 0, 0, 3, 0, 4>> }

\* Scenes on one canvas under a stack of transforms of two kinds, with one submission
\* between a clear() and the next
InitStack == new(12, 8) /\ InitGhost

NextStack ==
    \/ submitted = <<>> /\ \E path \in ScenePaths, brush \in SceneBrushes : fill_shape(path, brush)
    \/ submitted = <<>> /\ \E st \in SceneStrokes, brush \in SceneBrushes : stroke(st, brush)
    \/ clear
    \/ \E transform \in StackTransforms : push_transform(transform)
    \/ pop_transform

SpecStack == InitStack /\ [][NextStack]_vars

\* ------------------------------------------------------------ rasterizing
RasterCanvases == { <<1, 1>>, <<12, 6>>, <<128, 4>>, <<129, 5>>, <<130, 2>> }

\* what the output buffer may hold before the call
BufferFills == { TRANSPARENT, <<7, 7, 7, 7>> }

\* the buffer lengths a caller may pass for a canvas of width * height pixels
BufferLens == { 0, width * height - 1, width * height, width * height + 1 }

\* the wide tile slices a caller may pass: commands(), one tile less and one tile more
TileSlices == { SubSeq(wide_tiles, 1, Len(wide_tiles) - 1), wide_tiles,
                Append(wide_tiles, [commands |-> <<>>]) }

\* wide_tile::cpu_rasterize(self.width, self.height, buf, self.alpha_masks, tiles)
cpu_rasterize_into(buf, tiles) ==
    /\ LET out == cpu_rasterize(width, height, buf, alpha_masks, tiles)
       IN /\ img' = out.img
          /\ rasterized' = [called |-> TRUE, img |-> buf, wide_tiles_len |-> Len(tiles),
                            stores |-> out.stores, nstores |-> out.nstores,
                            panicked |-> out.panicked]
    /\ lastOp' = Op("cpu_rasterize")
    /\ UNCHANGED <<scene, written, submitted, saved, nsubmitted, pixel, gpu, widened>>

\* At most one submission to a fresh scene, rasterized once into a buffer of the right or
\* of a wrong size
InitRaster == (\E c \in RasterCanvases : new(c[1], c[2])) /\ InitGhost

NextRaster ==
    \/ lastOp.op = "new" /\ \E path \in ScenePaths, brush \in Brushes : fill_shape(path, brush)
    \/ lastOp.op = "new" /\ \E st \in SceneStrokes, brush \in SceneBrushes : stroke(st, brush)
    \/ /\ lastOp.op # "cpu_rasterize"
       /\ \E len \in BufferLens, fill \in BufferFills, tiles \in TileSlices :
             cpu_rasterize_into([k \in 1..len |-> fill], tiles)

SpecRaster == InitRaster /\ [][NextRaster]_vars

\* ------------------------------------------------------------ compositing
\* destination pixels: every channel value, and pixels with channels that differ
Unders == { <<v, v, v, v>> : v \in 0..U8_MAX } \cup { <<1, 2, 3, 4>>, <<128, 0, 64, 255>> }

\* command colors, premultiplied
CommandColors == { <<255, 0, 0, 255>>, <<0, 0, 128, 128>>, <<255, 255, 255, 255>>,
                   <<12, 34, 56, 78>>, <<200, 100, 50, 255>>, TRANSPARENT }

\* bytes of the alpha pool
AlphaBytes == { 0, 1, 127, 128, 255 }

\* wide_tile.rs 260-263: `scratch[idx] = over(scratch[idx], mul_alpha(sample.color, alpha))`
composite_sample ==
    /\ ~pixel.composited /\ ~pixel.filled
    /\ pixel' = [pixel EXCEPT !.composited = TRUE,
                              !.out = over(pixel.under, mul_alpha(pixel.color, pixel.alpha))]
    /\ lastOp' = Op("over")
    /\ UNCHANGED <<scene, written, submitted, saved, nsubmitted, img, rasterized, gpu, widened>>

\* indices of the scratch buffer: inside the span of FillCommand in sub-rows 0, 1 and 3,
\* and right of it in sub-rows 0 and 1
ScratchIndices == { 0, 131, 387, 4, 132 }

\* a SparseFill of the first tile column of a wide tile
FillCommand(color) == [kind |-> "SparseFill", x |-> 0, width |-> 1, color |-> color]

\* wide_tile.rs 282-298: Command::SparseFill, all sub-rows, as it leaves scratch[pixel.at]
composite_fill ==
    /\ ~pixel.composited /\ ~pixel.filled
    /\ pixel' = [pixel EXCEPT !.filled = TRUE,
                              !.out = CommandRows(pixel.under, FillCommand(pixel.color),
                                                  <<>>, pixel.at, 0)]
    /\ lastOp' = Op("SparseFill")
    /\ UNCHANGED <<scene, written, submitted, saved, nsubmitted, img, rasterized, gpu, widened>>

\* One pixel of the scratch buffer under one pixel of a Sample or a SparseFill command
InitComposite ==
    /\ new(8, 8)
    /\ written = {} /\ submitted = <<>> /\ saved = <<>> /\ nsubmitted = 0
    /\ lastOp = [op |-> "new", after |-> "none", depth |-> 0, commands |-> 0]
    /\ img = <<>>
    /\ rasterized = [called |-> FALSE]
    /\ gpu = [called |-> FALSE]
    /\ widened = [indexed |-> FALSE]
    /\ pixel \in [composited : {FALSE}, filled : {FALSE}, at : ScratchIndices, under : Unders,
                  color : CommandColors, alpha : AlphaBytes, out : {TRANSPARENT}]

NextComposite == composite_sample \/ composite_fill

SpecComposite == InitComposite /\ [][NextComposite]_vars

\* ------------------------------------------------------------- flattening
\* the points of the element streams, in half pixels
PathPoints == { <<0, 0>>, <<2, 0>>, <<2, 4>> }

PathEls == { MoveTo(p) : p \in PathPoints } \cup { LineTo(p) : p \in PathPoints } \cup { ClosePath }

\* the streams of 1 to MaxPathLen elements the curve flattener may hand to the callback
ElementStreams == UNION { [1..n -> PathEls] : n \in 1..MaxPathLen }

\* self.flatten_path(path), as fill_shape calls it
flatten_stream(path) ==
    /\ lines' = flatten_path(lines, current_transform, path)
    /\ submitted' = Append(submitted, [op |-> "flatten_path", path |-> path,
                                       transform |-> current_transform])
    /\ lastOp' = Op("flatten_path")
    /\ UNCHANGED <<width, height, transform_stack, current_transform, current_scale,
                   wide_tiles, alpha_masks, tile_rows, strips, written, saved, nsubmitted>>
    /\ UNCHANGED fine

\* One element stream flattened into the cleared lines of a fresh scene
InitFlatten == new(8, 8) /\ InitGhost

NextFlatten == lastOp.op = "new" /\ \E path \in ElementStreams : flatten_stream(path)

SpecFlatten == InitFlatten /\ [][NextFlatten]_vars

\* ---------------------------------------------------------- scratch pixels
\* command colors, premultiplied: opaque red, half blue, a dim color, white
ScratchColors == { <<255, 0, 0, 255>>, <<0, 0, 128, 128>>, <<12, 34, 56, 78>>,
                   <<255, 255, 255, 255>> }

\* bytes of the alpha pool and of SparseSample masks
ScratchAlphas == { 1, 128, 255 }

\* the widest value computed by mul_alpha(color, alpha) before its division, unbounded
MulAlphaWidest(color, alpha) ==
    LET vs == { color[k] * alpha : k \in 1..4 } IN CHOOSE v \in vs : \A u \in vs : u <= v

\* the widest value computed by over(under, ov) before its division, unbounded
OverWidest(under, ov) ==
    LET vs == { ov[k] * 255 + under[k] * (255 - ov[4]) : k \in 1..4 }
    IN CHOOSE v \in vs : \A u \in vs : u <= v

\* one more command over a pixel of the scratch buffer: `kind` as the record of the step,
\* `ov` the color composited over the pixel, `widest` the widest intermediate value
ScratchStep(kind, ov, widest) ==
    /\ pixel.n < MaxCommands
    /\ pixel' = [scratch |-> ov, n |-> pixel.n + 1, widest |-> Max(pixel.widest, widest)]
    /\ lastOp' = [op |-> kind, after |-> "new", depth |-> 0, commands |-> pixel.n]
    /\ UNCHANGED <<scene, written, submitted, saved, nsubmitted, img, rasterized, gpu, widened>>

\* wide_tile.rs 249-266: Command::Sample on one pixel, whose alpha pool byte is `alpha`
scratch_sample(color, alpha) ==
    ScratchStep("Sample", over(pixel.scratch, mul_alpha(color, alpha)),
                Max(MulAlphaWidest(color, alpha), OverWidest(pixel.scratch, mul_alpha(color, alpha))))

\* wide_tile.rs 267-281: Command::SparseSample on one pixel, whose mask byte is `alpha`
scratch_sparse_sample(color, alpha) ==
    ScratchStep("SparseSample", over(pixel.scratch, mul_alpha(color, alpha)),
                Max(MulAlphaWidest(color, alpha), OverWidest(pixel.scratch, mul_alpha(color, alpha))))

\* wide_tile.rs 282-298: Command::SparseFill on one pixel
scratch_fill(color) ==
    ScratchStep("SparseFill",
                IF color[4] = 255 THEN color ELSE over(pixel.scratch, color),
                IF color[4] = 255 THEN 0 ELSE OverWidest(pixel.scratch, color))

\* One pixel of the scratch buffer of a wide tile, from transparent, under up to
\* MaxCommands commands
InitScratch ==
    /\ new(8, 8)
    /\ written = {} /\ submitted = <<>> /\ saved = <<>> /\ nsubmitted = 0
    /\ lastOp = [op |-> "new", after |-> "none", depth |-> 0, commands |-> 0]
    /\ img = <<>>
    /\ rasterized = [called |-> FALSE]
    /\ gpu = [called |-> FALSE]
    /\ widened = [indexed |-> FALSE]
    /\ pixel = [scratch |-> TRANSPARENT, n |-> 0, widest |-> 0]

NextScratch ==
    \/ \E color \in ScratchColors, alpha \in ScratchAlphas : scratch_sample(color, alpha)
    \/ \E color \in ScratchColors, alpha \in ScratchAlphas : scratch_sparse_sample(color, alpha)
    \/ \E color \in ScratchColors : scratch_fill(color)

SpecScratch == InitScratch /\ [][NextScratch]_vars

\* -------------------------------------------------------- GPU rasterizing
\* a Sample across a whole wide tile, the k-th of its kind in the alpha pool
FullSample(k) ==
    [kind |-> "Sample", x |-> 0, width |-> WIDE_TILE_WIDTH_TILES,
     color |-> PremulRgba8(RED),
     alpha_idx |-> (k - 1) * WIDE_TILE_WIDTH_TILES * Tile_WIDTH * Tile_HEIGHT]

\* the commands of a canvas of one wide tile in which n strips span the whole width, as n
\* submissions of a shape with a slanted top edge leave them
FullSamples(n) == << [commands |-> [k \in 1..n |-> FullSample(k)]] >>

\* Rasterizer::rasterize(alpha_masks, tiles, w, dest_img) with an alpha pool of len bytes
rasterize_into(len, tiles, w) ==
    /\ gpu' = [called |-> TRUE, wide_tiles |-> tiles, width |-> w, alpha_masks_len |-> len,
               out |-> rasterize(len, tiles, w)]
    /\ lastOp' = Op("rasterize")
    /\ UNCHANGED <<scene, written, submitted, saved, nsubmitted, img, rasterized, pixel, widened>>

\* At most one submission to a fresh scene, rasterized once on the GPU; or a wide tile of
\* up to MaxGpuSamples full-width samples rasterized on the GPU
InitGpu == (\E c \in Canvases : new(c[1], c[2])) /\ InitGhost

NextGpu ==
    \/ lastOp.op = "new" /\ \E path \in ScenePaths, brush \in Brushes : fill_shape(path, brush)
    \/ lastOp.op = "new" /\ \E st \in Strokes, brush \in SceneBrushes : stroke(st, brush)
    \/ lastOp.op # "rasterize" /\ rasterize_into(Len(alpha_masks), wide_tiles, width)
    \/ /\ lastOp.op = "new"
       /\ \E n \in 1..MaxGpuSamples :
             rasterize_into(n * WIDE_TILE_WIDTH_PX * Tile_HEIGHT, FullSamples(n),
                            WIDE_TILE_WIDTH_PX)

SpecGpu == InitGpu /\ [][NextGpu]_vars

\* ------------------------------------------------------- wide tile indices
\* canvas widths and heights in pixels, up to the largest new() accepts
IndexWidths == { 1, 128, 129, 1025, 16385, U16_MAX }
IndexHeights == { 1, 4, 5, 516, 2036, U16_MAX }

\* tile columns and tile rows of strips
IndexXs == { 0, 31, 32, 160, 4096, 16383 }
IndexYs == { 0, 1, 128, 508, 16383 }

\* the widener computes the wide tile index of the strip at tile (x, y)
wide_tile_index(overflow_checks) ==
    /\ ~widened.indexed
    /\ widened' = [widened EXCEPT
                      !.indexed = TRUE,
                      !.overflow_checks = overflow_checks,
                      !.out = WideTileIndex(widened.y,
                                            DivCeil(widened.width, WIDE_TILE_WIDTH_PX),
                                            widened.x \div WIDE_TILE_WIDTH_TILES,
                                            overflow_checks)]
    /\ lastOp' = Op("generate_wide_tile_commands")
    /\ UNCHANGED <<scene, written, submitted, saved, nsubmitted, img, rasterized, pixel, gpu>>

\* A canvas size and a strip at a tile inside the canvas's grid
InitIndex ==
    /\ new(8, 8)
    /\ written = {} /\ submitted = <<>> /\ saved = <<>> /\ nsubmitted = 0
    /\ lastOp = [op |-> "new", after |-> "none", depth |-> 0, commands |-> 0]
    /\ img = <<>>
    /\ rasterized = [called |-> FALSE]
    /\ pixel = [composited |-> FALSE]
    /\ gpu = [called |-> FALSE]
    /\ widened \in { w \in [indexed : {FALSE}, overflow_checks : {FALSE}, width : IndexWidths,
                            height : IndexHeights, x : IndexXs, y : IndexYs,
                            out : {[idx |-> 0, panicked |-> FALSE]}] :
                       /\ w.x < DivCeil(w.width, Tile_WIDTH)
                       /\ w.y < DivCeil(w.height, Tile_HEIGHT) }

NextIndex == \E overflow_checks \in BOOLEAN : wide_tile_index(overflow_checks)

SpecIndex == InitIndex /\ [][NextIndex]_vars

\* ==================================================================== claims
\* the image cpu_rasterize produces from commands() and size()
Image(px, py) == ImgPixel(width, height, alpha_masks, wide_tiles, px, py)

\* the one submission of a scene that was filled once
TheFill == submitted[1]
OpaqueSolid(brush) == brush.kind = "Solid" /\ brush.color[4] = 2
\* a rectangle path whose corners lie on whole pixels
IntegerRect(path) == Len(path) = 5 /\ \A i \in 1..4 : path[i].p[1] % 2 = 0 /\ path[i].p[2] % 2 = 0
InsideRect(path, px, py) ==
    /\ path[1].p[1] <= 2 * px /\ 2 * px + 2 <= path[3].p[1]
    /\ path[1].p[2] <= 2 * py /\ 2 * py + 2 <= path[3].p[2]

\* C1: a fresh scene filled with one fully opaque rectangle of integer pixel bounds
\* rasterizes to the solid color at every pixel inside the rectangle and to
\* transparent black at every pixel outside of it.
C1_RectRoundTrip ==
    (lastOp.op = "fill_shape" /\ OpaqueSolid(TheFill.brush) /\ IntegerRect(TheFill.path))
    => \A px \in 0..(width - 1), py \in 0..(height - 1) :
          Image(px, py) = IF InsideRect(TheFill.path, px, py)
                             THEN PremulRgba8(TheFill.brush.color)
                             ELSE TRANSPARENT

\* the tile columns (of the whole row) that command cmd of wide tile column wx covers
CommandColumns(cmd, wx) ==
    { wx * WIDE_TILE_WIDTH_TILES + cmd.x + d : d \in 0..(cmd.width - 1) }

\* the tile columns of row y covered by the sparse (gap) commands of its wide tiles
GapColumns(y) ==
    LET wide_tile_columns == DivCeil(width, WIDE_TILE_WIDTH_PX)
    IN UNION { CommandColumns(wide_tiles[y * wide_tile_columns + wx + 1].commands[n], wx) :
                 <<wx, n>> \in { q \in (0..(wide_tile_columns - 1)) \X (1..64) :
                     /\ q[2] <= Len(wide_tiles[y * wide_tile_columns + q[1] + 1].commands)
                     /\ wide_tiles[y * wide_tile_columns + q[1] + 1].commands[q[2]].kind
                            \in {"SparseFill", "SparseSample"} } }

\* strip i is the first strip of its row
FirstOfRow(i) == \A j \in 1..(i - 1) : strips[j].y # strips[i].y

\* C2: after one submission to a fresh scene, for the first strip of every row whose
\* pixel_coverage is non-zero the gap commands cover exactly the tile columns [0, strip.x).
C2_FirstStripGap ==
    (lastOp.op \in {"fill_shape", "stroke"} /\ Len(submitted) = 1 /\ nsubmitted = 1)
    => \A i \in 1..Len(strips) :
          (FirstOfRow(i) /\ strips[i].pixel_coverage # [k \in 1..Tile_HEIGHT |-> 0])
          => { col \in GapColumns(strips[i].y) : col < strips[i].x } = 0..(strips[i].x - 1)

\* the total number of commands in the wide tiles
NumCommands == CommandCount(wide_tiles, Len(wide_tiles))

\* C3: every operation other than clear() leaves, in every wide tile, the command list it
\* found as a prefix of the list it leaves: fill_shape and stroke only append.
C3_AppendOnly ==
    [][lastOp'.op # "clear"
         => /\ Len(wide_tiles') = Len(wide_tiles)
            /\ \A i \in 1..Len(wide_tiles) :
                  IsPrefix(wide_tiles[i].commands, wide_tiles'[i].commands)]_vars

\* a submission that found commands of an earlier submission and added its own
C3_Witness ==
    /\ lastOp.op \in {"fill_shape", "stroke"}
    /\ Len(submitted) = 2
    /\ lastOp.commands > 0
    /\ NumCommands > lastOp.commands

\* the commands of the wide tile that holds canvas pixel column px of tile row y
CommandsAt(y, px) ==
    wide_tiles[y * DivCeil(width, WIDE_TILE_WIDTH_PX) + (px \div WIDE_TILE_WIDTH_PX) + 1].commands

\* cmd is a Sample generated for strip s
SampleOf(cmd, s) ==
    /\ cmd.kind = "Sample"
    /\ s.alpha_idx <= cmd.alpha_idx
    /\ cmd.alpha_idx < s.alpha_idx + s.width * Tile_WIDTH * Tile_HEIGHT

\* cmd covers pixel column px of the canvas
CoversPixel(cmd, px) ==
    /\ cmd.x * Tile_WIDTH <= px % WIDE_TILE_WIDTH_PX
    /\ px % WIDE_TILE_WIDTH_PX < (cmd.x + cmd.width) * Tile_WIDTH

\* C4: for every strip s, pixel column c in [0, s.width * 4) and sub-row y in [0, 4), the
\* byte the striper computed for that pixel is alpha_masks[s.alpha_idx + c * 4 + y], every
\* Sample generated for s that covers the pixel reads exactly this index, and as long as the
\* commands of the submission are not cleared, a pixel inside the canvas's wide tiles with a
\* non-zero byte has such a Sample.
C4_AlphaLayout ==
    \A i \in 1..Len(strips) :
       \A c \in 0..(strips[i].width * Tile_WIDTH - 1), y \in 0..(Tile_HEIGHT - 1) :
          LET s == strips[i]
              px == s.x * Tile_WIDTH + c
              idx == s.alpha_idx + c * Tile_HEIGHT + y
              inside == px < DivCeil(width, WIDE_TILE_WIDTH_PX) * WIDE_TILE_WIDTH_PX
              reads == { n \in 1..(IF inside THEN Len(CommandsAt(s.y, px)) ELSE 0) :
                           SampleOf(CommandsAt(s.y, px)[n], s)
                           /\ CoversPixel(CommandsAt(s.y, px)[n], px) }
          IN /\ idx < Len(alpha_masks)
             /\ [px |-> px, py |-> s.y * Tile_HEIGHT + y, a |-> alpha_masks[idx + 1]] \in written
             /\ \A n \in reads :
                   LET cmd == CommandsAt(s.y, px)[n]
                   IN SampleAlphaIdx(cmd, (px % WIDE_TILE_WIDTH_PX) - cmd.x * Tile_WIDTH, y) = idx
             /\ (submitted # <<>> /\ inside /\ alpha_masks[idx + 1] # 0) => reads # {}

\* a strip of a later submission (alpha_idx > 0) that is split across two wide tiles, each
\* of which holds a Sample generated for it
C4_Witness ==
    \E i \in 1..Len(strips) :
       LET s == strips[i]
           left == s.x * Tile_WIDTH
           right == (s.x + s.width) * Tile_WIDTH - 1
       IN /\ s.alpha_idx > 0
          /\ left \div WIDE_TILE_WIDTH_PX < right \div WIDE_TILE_WIDTH_PX
          /\ right < DivCeil(width, WIDE_TILE_WIDTH_PX) * WIDE_TILE_WIDTH_PX
          /\ \E n \in 1..Len(CommandsAt(s.y, left)) : SampleOf(CommandsAt(s.y, left)[n], s)
          /\ \E n \in 1..Len(CommandsAt(s.y, right)) : SampleOf(CommandsAt(s.y, right)[n], s)

\* C5: a pop_transform() that matches a push_transform restores current_transform and
\* current_scale to the values they had before that push, whatever submissions and balanced
\* push/pop pairs came in between.
C5_PopRestores ==
    [][(lastOp'.op = "pop_transform" /\ saved # <<>>)
         => /\ current_transform' = saved[Len(saved)].transform
            /\ current_scale' = saved[Len(saved)].scale
            /\ Len(transform_stack') = Len(saved) - 1]_vars

\* a nested pop_transform, after a submission made under the pushed transform, that restored
\* a transform and scale other than the identity's
C5_Witness ==
    /\ lastOp.op = "pop_transform"
    /\ lastOp.depth = 2
    /\ Len(submitted) > 0
    /\ submitted[Len(submitted)].transform # current_transform
    /\ current_transform # IDENTITY
    /\ current_scale = 2

\* the strips and alpha pool of a fresh scene given the lines of the last submission
FreshStrips == strip(tile_rows, lines, <<>>, <<>>)

\* C6: after clear() the alpha pool is empty, and a scene cleared and then given one
\* submission has the pool length and alpha_idx values of a fresh scene given that submission.
C6_PoolReset ==
    /\ lastOp.op = "clear" => alpha_masks = <<>>
    /\ (lastOp.op \in {"fill_shape", "stroke"} /\ Len(submitted) = 1)
        => /\ Len(alpha_masks) = Len(FreshStrips.alpha)
           /\ strips = FreshStrips.strips

\* C7: a clear() leaves every wide tile's command list empty, the transform stack empty,
\* current_transform the identity and current_scale 1, and does not change the canvas size
\* or the number of wide tiles.
C7_ClearPost ==
    [][lastOp'.op = "clear"
         => /\ \A i \in 1..Len(wide_tiles') : wide_tiles'[i].commands = <<>>
            /\ transform_stack' = <<>>
            /\ current_transform' = IDENTITY
            /\ current_scale' = 1
            /\ width' = width /\ height' = height
            /\ Len(wide_tiles') = Len(wide_tiles)]_vars

\* a clear() of a scene that held commands and a nested, non-identity transform
C7_Witness ==
    /\ lastOp.op = "clear"
    /\ lastOp.commands > 0
    /\ lastOp.depth = 2

\* C8: a clear() that directly follows a clear() leaves the scene state as it found it.
C8_ClearIdempotent ==
    [][(lastOp.op = "clear" /\ lastOp'.op = "clear") => scene' = scene]_vars

\* two consecutive clears, the first of which found commands and pushed transforms
C8_Witness ==
    /\ lastOp.op = "clear"
    /\ lastOp.after = "clear"
    /\ nsubmitted > 0
    /\ alpha_masks # <<>>

\* C9: pop_transform() on an empty transform stack changes nothing of the scene.
C9_PopEmptyNoOp ==
    [][(lastOp'.op = "pop_transform" /\ transform_stack = <<>>) => scene' = scene]_vars

\* a pop_transform made on an empty stack in a scene that holds commands and alpha bytes
C9_Witness ==
    /\ lastOp.op = "pop_transform"
    /\ lastOp.depth = 0
    /\ lastOp.commands > 0
    /\ alpha_masks # <<>>

\* ceil(a / b), as the least q with a <= q * b
Ceil(a, b) == CHOOSE q \in 0..a : a <= q * b /\ \A r \in 0..(q - 1) : a > r * b

\* C10: the scene always has ceil(W/128) * ceil(H/4) wide tiles and ceil(H/4) tile rows, the
\* wide tiles are empty after new(), and cpu_rasterize's assertions hold for an image of
\* size() pixels and the wide tiles of commands().
C10_GridSize ==
    /\ Len(wide_tiles) = Ceil(width, WIDE_TILE_WIDTH_PX) * Ceil(height, Tile_HEIGHT)
    /\ Len(tile_rows) = Ceil(height, Tile_HEIGHT)
    /\ lastOp.op = "new" => \A i \in 1..Len(wide_tiles) : wide_tiles[i].commands = <<>>
    /\ cpu_rasterize_asserts(width, height, width * height, wide_tiles)

\* a scene whose height is not a multiple of the tile height, after a submission and a clear
C10_Witness ==
    /\ height % Tile_HEIGHT # 0
    /\ width % WIDE_TILE_WIDTH_PX # 0
    /\ width > WIDE_TILE_WIDTH_PX
    /\ lastOp.op = "fill_shape"
    /\ lastOp.after = "clear"
    /\ NumCommands > 0

\* the lines a submission puts into a cleared line buffer
SubmissionLines(sub) ==
    IF sub.op = "fill_shape" THEN flatten_path(<<>>, sub.transform, sub.path)
    ELSE LET snapped == SnapLines(stroke_undashed(sub.path))
         IN [i \in 1..Len(snapped) |-> MkLine(AffinePoint(sub.transform, snapped[i].p0),
                                             AffinePoint(sub.transform, snapped[i].p1))]

\* the wide tiles of a fresh scene of this size after the one submission `sub`
FreshWideTiles(sub) ==
    LET ls == SubmissionLines(sub)
        rows == tile([r \in 1..Len(tile_rows) |-> TileRow_new], width, ls)
        out == strip(rows, ls, <<>>, <<>>)
    IN generate_wide_tile_commands(width, [i \in 1..Len(wide_tiles) |-> [commands |-> <<>>]],
                                   out.strips, out.alpha, sub.brush)

\* the wide tiles with `offset` added to the alpha_idx of every Sample
ShiftAlphaIdx(wts, offset) ==
    [i \in 1..Len(wts) |->
        [commands |-> [n \in 1..Len(wts[i].commands) |->
            IF wts[i].commands[n].kind = "Sample"
               THEN [wts[i].commands[n] EXCEPT !.alpha_idx = @ + offset]
               ELSE wts[i].commands[n]]]]

\* what the wide tiles `after` hold beyond the commands of the wide tiles `before`
Appended(before, after) ==
    [i \in 1..Len(before) |->
        [commands |-> SubSeq(after[i].commands, Len(before[i].commands) + 1,
                             Len(after[i].commands))]]

\* C11: the commands a submission appends to each wide tile are those a fresh scene gets
\* from the same submission, with the alpha_idx of the Samples offset by the length the
\* alpha pool had before: lines, tile rows and strips of earlier paths leave no trace.
C11_ScratchCleared ==
    [][lastOp'.op \in {"fill_shape", "stroke"}
         => \A fresh \in {FreshWideTiles(submitted'[Len(submitted')])} :
               Appended(wide_tiles, wide_tiles') = ShiftAlphaIdx(fresh, Len(alpha_masks))]_vars

\* a submission that added commands to a scene whose scratch buffers held the lines, tiles
\* and strips of a different earlier submission
C11_Witness ==
    /\ lastOp.op \in {"fill_shape", "stroke"}
    /\ Len(submitted) = 2
    /\ submitted[1].op # submitted[2].op
    /\ NumCommands > lastOp.commands
    /\ \E i \in 1..Len(strips) : strips[i].alpha_idx > 0

\* the tile columns a strip occupies
StripColumns(s) == s.x..(s.x + s.width - 1)

\* the tile columns of tile row y (counted from 0) that hold a tile
OccupiedColumns(y) == { tile_rows[y + 1].tiles[k].x : k \in 1..Len(tile_rows[y + 1].tiles) }

\* the indices of the strips of tile row y
StripsOfRow(y) == { i \in 1..Len(strips) : strips[i].y = y }

\* C12: the strips of a path are in non-decreasing (y, x) order; two strips of one row
\* are disjoint, and the tile column right of the earlier one holds no tile.
C12_StripOrder ==
    /\ \A i \in 1..(Len(strips) - 1) :
          \/ strips[i].y < strips[i + 1].y
          \/ strips[i].y = strips[i + 1].y /\ strips[i].x <= strips[i + 1].x
    /\ \A i, j \in 1..Len(strips) :
          (i < j /\ strips[i].y = strips[j].y)
          => /\ strips[i].x + strips[i].width < strips[j].x
             /\ strips[i].x + strips[i].width \notin OccupiedColumns(strips[i].y)

\* a path with strips in two rows, one row holding two strips of which the second is two
\* tiles wide
C12_Witness ==
    /\ \E i \in 1..(Len(strips) - 1) :
          strips[i].y = strips[i + 1].y /\ strips[i + 1].width = 2
    /\ \E i, j \in 1..Len(strips) : strips[i].y # strips[j].y

\* C13: each strip's alpha_idx is its predecessor's alpha_idx plus the predecessor's
\* width * 4 * 4, within a row and across rows; the first strip of a fresh scene starts at
\* 0 and the last one ends at the end of the pool.
C13_AlphaContiguity ==
    /\ \A i \in 1..(Len(strips) - 1) :
          strips[i + 1].alpha_idx
          = strips[i].alpha_idx + strips[i].width * Tile_WIDTH * Tile_HEIGHT
    /\ strips # <<>>
       => /\ strips[1].alpha_idx = 0
          /\ strips[Len(strips)].alpha_idx
             + strips[Len(strips)].width * Tile_WIDTH * Tile_HEIGHT = Len(alpha_masks)

\* a strip of width 1 followed by a strip in the same row, and a strip of width 2 followed
\* by a strip in the next row
C13_Witness ==
    /\ \E i \in 1..(Len(strips) - 1) :
          strips[i].y = strips[i + 1].y /\ strips[i].width = 1
    /\ \E i \in 1..(Len(strips) - 1) :
          strips[i].y < strips[i + 1].y /\ strips[i].width = 2

\* C19: in every row that holds tiles, the strips are the maximal runs of occupied tile
\* columns: every strip is at least one tile wide, the strips' columns together are the
\* row's occupied columns, and no strip begins where another ends.
C19_MaximalRuns ==
    \A y \in 0..(Len(tile_rows) - 1) :
       /\ \A i \in StripsOfRow(y) : strips[i].width >= 1
       /\ UNION { StripColumns(strips[i]) : i \in StripsOfRow(y) } = OccupiedColumns(y)
       /\ \A i, j \in StripsOfRow(y) :
             i # j => /\ strips[i].x + strips[i].width # strips[j].x
                      /\ StripColumns(strips[i]) \cap StripColumns(strips[j]) = {}

\* a row whose tiles form a run of one column holding two tiles and a run of two columns
C19_Witness ==
    \E y \in 0..(Len(tile_rows) - 1) :
       /\ Cardinality(StripsOfRow(y)) = 2
       /\ \E i \in StripsOfRow(y) : strips[i].width = 2
       /\ \E i \in StripsOfRow(y) : strips[i].width = 1
       /\ Len(tile_rows[y + 1].tiles) > Cardinality(OccupiedColumns(y))

\* the number of wide tile columns of the canvas
WideTileColumns == DivCeil(width, WIDE_TILE_WIDTH_PX)

\* the commands of the wide tile in column wx of tile row y
TileCommands(y, wx) == wide_tiles[y * WideTileColumns + wx + 1].commands

\* the places <<wx, n>> of the commands of tile row y
RowPlaces(y) ==
    { q \in (0..(WideTileColumns - 1)) \X (1..64) : q[2] <= Len(TileCommands(y, q[1])) }

\* the first tile column (of the whole row) of the command at place q of row y
StartColumn(y, q) == q[1] * WIDE_TILE_WIDTH_TILES + TileCommands(y, q[1])[q[2]].x

\* strip i follows another strip of its row
FollowsInRow(i) == i > 1 /\ strips[i - 1].y = strips[i].y

\* the tile columns between strip i and the strip before it
GapBefore(i) == (strips[i - 1].x + strips[i - 1].width)..(strips[i].x - 1)

\* the places of the sparse commands of the row of strip i that start in the gap before
\* strip i or at the strip itself
GapPlaces(i) ==
    { q \in RowPlaces(strips[i].y) :
        /\ TileCommands(strips[i].y, q[1])[q[2]].kind \in {"SparseFill", "SparseSample"}
        /\ strips[i - 1].x + strips[i - 1].width <= StartColumn(strips[i].y, q)
        /\ StartColumn(strips[i].y, q) <= strips[i].x }

WideTileSpan(wx) == (wx * WIDE_TILE_WIDTH_TILES)..((wx + 1) * WIDE_TILE_WIDTH_TILES - 1)

\* C16: the gap commands of a strip that follows another strip of its row are one per wide
\* tile the gap overlaps and none in the other wide tiles, each at least one tile wide, and
\* their spans together are the gap's tile columns.
C16_GapPerWideTile ==
    \A i \in 1..Len(strips) :
       (FollowsInRow(i) /\ strips[i].pixel_coverage # [k \in 1..Tile_HEIGHT |-> 0])
       => /\ \A q \in GapPlaces(i) : TileCommands(strips[i].y, q[1])[q[2]].width >= 1
          /\ \A wx \in 0..(WideTileColumns - 1) :
                Cardinality({ q \in GapPlaces(i) : q[1] = wx })
                = IF WideTileSpan(wx) \cap GapBefore(i) # {} THEN 1 ELSE 0
          /\ UNION { CommandColumns(TileCommands(strips[i].y, q[1])[q[2]], q[1]) :
                       q \in GapPlaces(i) } = GapBefore(i)

\* the tile columns of strip i that lie in wide tile column wx
SpanOf(i, wx) == StripColumns(strips[i]) \cap WideTileSpan(wx)

\* the least element of a non-empty set of numbers
Least(S) == CHOOSE a \in S : \A b \in S : a <= b

\* the places in wide tile column wx of the commands that cover columns of strip i
CommandsOn(i, wx) ==
    { n \in 1..Len(TileCommands(strips[i].y, wx)) :
        CommandColumns(TileCommands(strips[i].y, wx)[n], wx) \cap StripColumns(strips[i]) # {} }

\* C17: after one submission to a fresh scene, for every strip and every wide tile it
\* has tile columns in, the wide tile holds exactly one command on the strip's columns when
\* the alpha window of the span is not all zero, namely the Sample of the span with
\* alpha_idx = strip.alpha_idx + 16 * (the strip's columns left of the span), and no
\* command on them when the window is all zero.
C17_SamplePerSpan ==
    \A i \in 1..Len(strips) : \A wx \in 0..(WideTileColumns - 1) :
       SpanOf(i, wx) # {}
       => LET span_x == Least(SpanOf(i, wx))
              w == Cardinality(SpanOf(i, wx))
              alpha_idx == strips[i].alpha_idx
                           + Tile_WIDTH * Tile_HEIGHT * (span_x - strips[i].x)
              window == { alpha_masks[k + 1] :
                            k \in alpha_idx..(alpha_idx + w * Tile_WIDTH * Tile_HEIGHT - 1) }
          IN IF window = {0}
                THEN CommandsOn(i, wx) = {}
                ELSE /\ Cardinality(CommandsOn(i, wx)) = 1
                     /\ \A n \in CommandsOn(i, wx) :
                           LET cmd == TileCommands(strips[i].y, wx)[n]
                           IN /\ cmd.kind = "Sample"
                              /\ cmd.x = span_x - wx * WIDE_TILE_WIDTH_TILES
                              /\ cmd.width = w
                              /\ cmd.alpha_idx = alpha_idx

\* a strip split across two wide tiles whose first span is all zero and has no command
\* and whose second span has its Sample
C17_Witness ==
    \E i \in 1..Len(strips) : \E wx \in 0..(WideTileColumns - 2) :
       /\ SpanOf(i, wx) # {}
       /\ SpanOf(i, wx + 1) # {}
       /\ CommandsOn(i, wx) = {}
       /\ \E n \in CommandsOn(i, wx + 1) :
             TileCommands(strips[i].y, wx + 1)[n].alpha_idx > strips[i].alpha_idx

\* C14: a cpu_rasterize call whose buffer length differs from W * H, or whose wide tile
\* slice length differs from ceil(W / 128) * ceil(H / 4), panics without having stored to
\* any index of the buffer, which is left as it was passed
C14_FailFast ==
    (/\ rasterized.called
     /\ \/ Len(rasterized.img) # width * height
        \/ rasterized.wide_tiles_len # Ceil(width, WIDE_TILE_WIDTH_PX) * Ceil(height, Tile_HEIGHT))
    => /\ rasterized.panicked
       /\ rasterized.stores = {}
       /\ img = rasterized.img

\* a scene with commands was rasterized into a buffer one pixel short and not yet transparent
C14_Witness ==
    /\ rasterized.called
    /\ Len(rasterized.img) = width * height - 1
    /\ rasterized.wide_tiles_len = Len(wide_tiles)
    /\ NumCommands > 0
    /\ rasterized.img # <<>> /\ rasterized.img[1] # TRANSPARENT
    /\ rasterized.panicked

\* C18: a Sample composited with alpha byte 0 leaves the destination pixel as it was, in
\* all four channels, whatever the command color and the destination pixel
C18_ZeroAlphaNoOp ==
    (pixel.composited /\ pixel.alpha = 0) => pixel.out = pixel.under

\* an opaque white pixel was composited with a colored command at alpha byte 0
C18_Witness ==
    /\ pixel.composited
    /\ pixel.alpha = 0
    /\ pixel.under = <<255, 255, 255, 255>>
    /\ pixel.color = <<12, 34, 56, 78>>

\* the element stream of the last flatten_path
Stream == submitted[Len(submitted)].path
\* the last element before the i-th whose kind is in `kinds`, 0 if there is none
LastBefore(i, kinds) ==
    LET js == { j \in 1..(i - 1) : Stream[j].t \in kinds }
    IN IF js = {} THEN 0 ELSE CHOOSE j \in js : \A k \in js : k <= j
PointOf(j) == IF j = 0 THEN <<0, 0>> ELSE AffinePoint(current_transform, Stream[j].p)
\* prev, start and the openness of the subpath when element i arrives (i = Len + 1: at the end)
PrevAt(i) == PointOf(LastBefore(i, {"MoveTo", "LineTo"}))
StartAt(i) == PointOf(LastBefore(i, {"MoveTo"}))
OpenAt(i) == i > 1 /\ Stream[i - 1].t = "LineTo"
\* the lines element i is to emit
EmittedAt(i) ==
    CASE Stream[i].t = "LineTo" -> << MkLine(PrevAt(i), PointOf(i)) >>
      [] Stream[i].t = "ClosePath" -> << MkLine(PrevAt(i), StartAt(i)) >>
      [] Stream[i].t = "MoveTo" -> IF OpenAt(i) THEN << MkLine(PrevAt(i), StartAt(i)) >> ELSE <<>>
RECURSIVE EmittedUpTo(_)
EmittedUpTo(i) == IF i = 0 THEN <<>> ELSE EmittedUpTo(i - 1) \o EmittedAt(i)
ClosingLine ==
    LET end == Len(Stream) + 1
    IN IF OpenAt(end) /\ PrevAt(end) # StartAt(end)
          THEN << MkLine(PrevAt(end), StartAt(end)) >>
          ELSE <<>>

\* C20: the lines of a flattened element stream are, in order, Line(prev -> p) for each
\* LineTo(p), Line(prev -> start) for each ClosePath and for each MoveTo that arrives while
\* the subpath is open, and one closing Line(prev -> start) at the end exactly when the
\* subpath is open and prev differs from start; there are no other lines
C20_ClosesSubpaths ==
    lastOp.op = "flatten_path" => lines = EmittedUpTo(Len(Stream)) \o ClosingLine

\* a MoveTo arrived while a subpath was open, and the stream ended with an open subpath
C20_Witness ==
    /\ lastOp.op = "flatten_path"
    /\ Stream = << MoveTo(<<0, 0>>), LineTo(<<2, 0>>), MoveTo(<<2, 4>>), LineTo(<<0, 0>>) >>
    /\ lines = << MkLine(<<0, 0>>, <<2, 0>>), MkLine(<<2, 0>>, <<0, 0>>),
                  MkLine(<<2, 4>>, <<0, 0>>), MkLine(<<0, 0>>, <<2, 4>>) >>

\* the product, in push order, of the first n transforms pushed and not yet popped
RECURSIVE PushedProduct(_)
PushedProduct(n) ==
    IF n = 0 THEN IDENTITY ELSE AffineMul(PushedProduct(n - 1), saved[n].pushed)

\* C21: in every scene state the stack holds one entry per transform pushed and not yet
\* popped, current_transform is the product of those transforms in push order, and
\* current_scale is the larger of |c[0]| and |c[3]| of current_transform
C21_TransformProduct ==
    /\ Len(transform_stack) = Len(saved)
    /\ current_transform = PushedProduct(Len(saved))
    /\ current_scale = Max(Abs(current_transform[1]), Abs(current_transform[4]))

\* two different transforms are on the stack, a submission was made under them, and the
\* scale is that of the y axis
C21_Witness ==
    /\ Len(saved) = 2
    /\ saved[1].pushed # saved[2].pushed
    /\ lastOp.op \in {"fill_shape", "stroke"}
    /\ current_scale = Abs(current_transform[4])
    /\ current_scale # Abs(current_transform[1])

\* source-over compositing of `ov` over `under`, in unbounded arithmetic
SourceOver(under, ov) == [c \in 1..4 |-> (ov[c] * 255 + under[c] * (255 - ov[4])) \div 255]

\* whether scratch index k lies in the span of FillCommand in one of the 4 sub-rows
InFillSpan(k) == k \div WIDE_TILE_WIDTH_PX < Tile_HEIGHT /\ k % WIDE_TILE_WIDTH_PX < Tile_WIDTH

\* C22: a SparseFill leaves in every pixel of its span, in each of the 4 sub-rows, the
\* source-over composite of its color over the pixel, for opaque colors (the overwriting
\* shortcut) and for all others, and leaves the pixels outside the span as they were
C22_FillIsSourceOver ==
    pixel.filled => pixel.out = IF InFillSpan(pixel.at) THEN SourceOver(pixel.under, pixel.color)
                                                        ELSE pixel.under

\* the shortcut overwrote a pixel of the last sub-row that held another color
C22_Witness ==
    /\ pixel.filled
    /\ pixel.at = 387
    /\ pixel.color = <<200, 100, 50, 255>>
    /\ pixel.under = <<128, 0, 64, 255>>
    /\ pixel.out = pixel.color

\* a valid premultiplied color: r, g, b <= a <= 255
ValidPremul(c) == \A k \in 1..3 : 0 <= c[k] /\ c[k] <= c[4] /\ c[4] <= U8_MAX

\* C23: under commands whose colors are valid premultiplied colors, a pixel of the scratch
\* buffer is a valid premultiplied color with alpha <= 255 after every command, and no
\* value computed in mul_alpha or over on the way exceeded 16 bits
C23_PremulPreserved ==
    /\ ValidPremul(pixel.scratch)
    /\ pixel.widest <= U16_MAX

\* three commands left a translucent pixel with color in it that none of the command colors is
C23_Witness ==
    /\ pixel.n = 3
    /\ pixel.scratch \notin ScratchColors
    /\ pixel.scratch[4] \in 1..254
    /\ pixel.scratch[3] > 0
    /\ pixel.widest > U8_MAX * 128

\* C24: cpu_rasterize with a buffer of W * H pixels and the scene's wide tiles does not
\* index outside the buffer, stores to each of the W * H indices exactly once, and leaves
\* in pixel (px, py) the scratch pixel (px mod 128, py mod 4) of wide tile
\* (px div 128, py div 4), whatever the buffer held before
C24_EveryPixelOnce ==
    (/\ rasterized.called
     /\ Len(rasterized.img) = width * height
     /\ rasterized.wide_tiles_len = Len(wide_tiles))
    => /\ ~rasterized.panicked
       /\ rasterized.stores = 0..(width * height - 1)
       /\ rasterized.nstores = width * height
       /\ \A py \in 0..(height - 1), px \in 0..(width - 1) :
             img[py * width + px + 1] =
                Scratch(wide_tiles[(py \div Tile_HEIGHT) * Ceil(width, WIDE_TILE_WIDTH_PX)
                                   + (px \div WIDE_TILE_WIDTH_PX) + 1].commands,
                        alpha_masks,
                        (py % Tile_HEIGHT) * WIDE_TILE_WIDTH_PX + (px % WIDE_TILE_WIDTH_PX),
                        Len(wide_tiles[(py \div Tile_HEIGHT) * Ceil(width, WIDE_TILE_WIDTH_PX)
                                       + (px \div WIDE_TILE_WIDTH_PX) + 1].commands))

\* a canvas of two wide tile columns and two rows, the last column one pixel wide and the
\* last row one pixel high, was rasterized into a buffer that was not transparent, and the
\* stroke shows in the last column
C24_Witness ==
    /\ rasterized.called /\ ~rasterized.panicked
    /\ width = 129 /\ height = 5
    /\ rasterized.img[1] # TRANSPARENT
    /\ img[1] = TRANSPARENT
    /\ img[2 * width] # TRANSPARENT

\* the commands the GPU rasterizer was given, in the order of the CPU rasterizer: wide tile
\* by wide tile, each one's Sample, SparseSample and SparseFill commands in list order
RECURSIVE DrawnFrom(_, _)
DrawnFrom(idx, n) ==
    IF idx >= Len(gpu.wide_tiles) THEN <<>>
    ELSE IF n > Len(gpu.wide_tiles[idx + 1].commands) THEN DrawnFrom(idx + 1, 1)
    ELSE LET cmd == gpu.wide_tiles[idx + 1].commands[n]
             wide_tiles_per_row == Ceil(gpu.width, WIDE_TILE_WIDTH_PX)
         IN (IF cmd.kind \in {"Sample", "SparseSample", "SparseFill"}
                THEN << [x |-> ((idx % wide_tiles_per_row) * WIDE_TILE_WIDTH_TILES + cmd.x)
                                  * Tile_WIDTH,
                         y |-> (idx \div wide_tiles_per_row) * Tile_HEIGHT,
                         width |-> cmd.width * Tile_WIDTH,
                         of |-> <<idx, n>>] >>
                ELSE <<>>) \o DrawnFrom(idx, n + 1)

\* the draw instances of all passes, in the order they are drawn
RECURSIVE InstancesUpTo(_)
InstancesUpTo(p) ==
    IF p = 0 THEN <<>> ELSE InstancesUpTo(p - 1) \o gpu.out.passes[p].instances

\* C25: the draw instances of the GPU rasterizer are, in order, one per Sample, SparseSample
\* and SparseFill command of the wide tiles, at the command's pixel position and width
C25_SameCommandStream ==
    gpu.called =>
       \A drawn \in {InstancesUpTo(Len(gpu.out.passes))} :
          [i \in 1..Len(drawn) |-> [x |-> drawn[i].x, y |-> drawn[i].y,
                                    width |-> drawn[i].width, of |-> drawn[i].of]]
             = DrawnFrom(0, 1)

\* C26: in every pass, a Sample's draw instance records as alpha_idx, in units of 16 bytes,
\* the offset in that pass's batch buffer of the slice of the alpha pool copied for it
C26_BatchAlphaIdx ==
    gpu.called =>
       \A p \in 1..Len(gpu.out.passes) :
          \A i \in 1..Len(gpu.out.passes[p].instances) :
             LET inst == gpu.out.passes[p].instances[i]
                 cmd == gpu.wide_tiles[inst.of[1] + 1].commands[inst.of[2]]
             IN cmd.kind = "Sample" =>
                   \E k \in 1..Len(gpu.out.passes[p].alpha_masks) :
                      /\ gpu.out.passes[p].alpha_masks[k].src = cmd.alpha_idx
                      /\ gpu.out.passes[p].alpha_masks[k].len = cmd.width * Tile_WIDTH * Tile_HEIGHT
                      /\ gpu.out.passes[p].alpha_masks[k].at
                            = inst.alpha_idx * Tile_WIDTH * Tile_HEIGHT

\* the coverage (per sub-row) the striper has accumulated at the right end of the geometry
\* of tile row y: the left-of-viewport coverage of a row without tiles, else what the tile
\* loop of generate_strips holds after the last tile of the row
RowEndCoverage(y) ==
    LET row == tile_rows[y + 1]
    IN IF row.tiles = <<>> \/ lines = <<>> THEN row.area_coverage
       ELSE StripLoop([prev_tile |-> row.tiles[1],
                       location_winding |-> [x \in 1..Tile_WIDTH |-> row.area_coverage],
                       accumulated_winding |-> row.area_coverage,
                       strip |-> [x |-> row.tiles[1].x, y |-> y, width |-> 0,
                                  pixel_coverage |-> [k \in 1..Tile_HEIGHT |->
                                                        CoverageToU8(row.area_coverage[k])],
                                  alpha_idx |-> 0],
                       alpha |-> <<>>, strips |-> <<>>, written |-> {}],
                      Append(row.tiles, GATE_CLOSER), 1, y, lines).accumulated_winding

\* the tile column right of the last strip of tile row y, 0 for a row without strips
RowEnd(y) ==
    LET ends == { strips[i].x + strips[i].width : i \in StripsOfRow(y) }
    IN IF ends = {} THEN 0 ELSE CHOOSE e \in ends : \A f \in ends : f <= e

\* C27: after one submission to a fresh scene, in every tile row whose coverage is non-zero
\* at the right end of its geometry, the fill commands cover the tile columns from the end
\* of the last strip (from column 0 in a row without tiles) to the right edge of the viewport
C27_RowEndFilled ==
    (lastOp.op \in {"fill_shape", "stroke"} /\ Len(submitted) = 1 /\ nsubmitted = 1)
    => \A y \in 0..(Len(tile_rows) - 1) :
          (\E k \in 1..Tile_HEIGHT : CoverageToU8(RowEndCoverage(y)[k]) # 0)
          => (RowEnd(y)..(DivCeil(width, Tile_WIDTH) - 1)) \subseteq GapColumns(y)

\* the number of emitted lines that start, and that end, at point p
LinesFrom(p) == Cardinality({ i \in 1..Len(lines) : lines[i].p0 = p })
LinesTo(p) == Cardinality({ i \in 1..Len(lines) : lines[i].p1 = p })

\* C28: the lines emitted for an element stream that starts with MoveTo form closed loops:
\* every point starts as many lines as it ends
C28_ClosedLoops ==
    (lastOp.op = "flatten_path" /\ Stream[1].t = "MoveTo")
    => \A i \in 1..Len(lines) :
          /\ LinesFrom(lines[i].p0) = LinesTo(lines[i].p0)
          /\ LinesFrom(lines[i].p1) = LinesTo(lines[i].p1)

\* C29: every command of every wide tile lies inside the wide tile, x + width <= 32, so the
\* scratch indices y * 128 + x * 4 .. y * 128 + (x + width) * 4 - 1 that cpu_rasterize uses
\* for it stay inside sub-row y and inside the scratch buffer of 128 * 4 pixels
C29_CommandInsideWideTile ==
    \A t \in 1..Len(wide_tiles) : \A n \in 1..Len(wide_tiles[t].commands) :
       LET cmd == wide_tiles[t].commands[n]
       IN /\ 0 <= cmd.x /\ 0 <= cmd.width
          /\ cmd.x + cmd.width <= WIDE_TILE_WIDTH_TILES
          /\ \A y \in 0..(Tile_HEIGHT - 1) :
                /\ y * WIDE_TILE_WIDTH_PX + (cmd.x + cmd.width) * Tile_WIDTH
                      <= (y + 1) * WIDE_TILE_WIDTH_PX
                /\ y * WIDE_TILE_WIDTH_PX + (cmd.x + cmd.width) * Tile_WIDTH
                      <= WIDE_TILE_WIDTH_PX * Tile_HEIGHT

\* after two submissions a strip across a wide tile boundary has a command that ends at the
\* right edge of its wide tile and one that starts at the left edge of the next
C29_Witness ==
    /\ nsubmitted = 2 /\ Len(submitted) = 2
    /\ Len(wide_tiles) >= 2
    /\ \E n \in 1..Len(wide_tiles[1].commands) :
          /\ wide_tiles[1].commands[n].kind = "Sample"
          /\ wide_tiles[1].commands[n].x + wide_tiles[1].commands[n].width = WIDE_TILE_WIDTH_TILES
    /\ \E n \in 1..Len(wide_tiles[2].commands) :
          /\ wide_tiles[2].commands[n].kind = "Sample"
          /\ wide_tiles[2].commands[n].x = 0
          /\ wide_tiles[2].commands[n].width >= 1

\* C30: for a strip at tile (x, y) inside the grid of a canvas of any size new() accepts,
\* the widener's 16-bit index computation does not overflow and yields the row-major index
\* y * ceil(W / 128) + x div 32, the index of the wide tile cpu_rasterize renders at wide
\* tile row y and column x div 32
C30_WideTileIndex ==
    widened.indexed
    => /\ ~widened.out.panicked
       /\ widened.out.idx = widened.y * Ceil(widened.width, WIDE_TILE_WIDTH_PX)
                               + widened.x \div WIDE_TILE_WIDTH_TILES

====
